---- MODULE Spec2Model ----
(***************************************************************************)
(* Receipt filing application: the receipt-text interpreter of             *)
(* services/ocr_service.py (OCRService) and the category classifier of     *)
(* config/categories.py (CategoryConfig).                                  *)
(*                                                                         *)
(* A Python str is a sequence of characters; a character is a one-letter   *)
(* string.  A CJK character is written by its code point ("U5408").        *)
(* Python's None / absent is Null, a present value v is Some(v).           *)
(***************************************************************************)
EXTENDS Integers, Sequences, FiniteSets, TLC

VARIABLES
    text,               \* the text handed to the interpreter
    result,             \* what the last interpreter call returned
    raised,             \* whether the last interpreter call raised
    op,                 \* "input", or the method that produced the result
    written,            \* the calendar date the text was written from, if any
    default_categories, \* CategoryConfig.default_categories
    custom_categories,  \* CategoryConfig.custom_categories
    receipt,            \* the receipt handed to the last categorize_receipt call
    mutations,          \* calls made so far that may change the tables
    args,               \* the last call of the classifier: its arguments (the
                        \* receipt apart) and the tables as it found them
    history,            \* the interpreter calls made so far, with what they returned
    response,           \* the OCR provider's response to the image, if one was asked for
    calls,              \* the methods the last extract_receipt_data call ran
    message,            \* the message of the exception the last call raised, if any
    requests,           \* the upload requests in flight: each handler's local state
    receipts            \* the receipts handed to the last get_summary_stats call

category_vars == <<default_categories, custom_categories, receipt, mutations, args>>

app_vars == <<history, response, calls, message, requests, receipts>>

vars == <<text, result, raised, op, written, category_vars, app_vars>>

-----------------------------------------------------------------------------
(* Optional values *)

Null == [some |-> FALSE]
Some(v) == [some |-> TRUE, val |-> v]

\* F applied to the value of v, with v computed once
With(v, F(_)) == CHOOSE y \in {F(x) : x \in {v}} : TRUE

-----------------------------------------------------------------------------
(* Characters *)

NL == "\n"
Digit == {"0", "1", "2", "3", "4", "5", "6", "7", "8", "9"}
DateSep == {"-", "/"}
\* str.strip() and the regular expressions' \s: whitespace
Whitespace == {" ", "\t", "\r", NL}

UpperLetters == <<"A", "B", "C", "D", "E", "F", "G", "H", "I", "J", "K", "L", "M",
                  "N", "O", "P", "Q", "R", "S", "T", "U", "V", "W", "X", "Y", "Z">>
LowerLetters == <<"a", "b", "c", "d", "e", "f", "g", "h", "i", "j", "k", "l", "m",
                  "n", "o", "p", "q", "r", "s", "t", "u", "v", "w", "x", "y", "z">>
LowerTable == [c \in {UpperLetters[i] : i \in 1..26} |->
                 LowerLetters[CHOOSE i \in 1..26 : UpperLetters[i] = c]]

\* str.lower() on one character
LowerChar(c) == IF c \in DOMAIN LowerTable THEN LowerTable[c] ELSE c

\* str.lower()
Lower(s) == [i \in 1..Len(s) |-> LowerChar(s[i])]

\* the characters of the texts that are not word characters (the regular
\* expressions' \W); letters, digits, "_" and CJK characters are \w
NonWordChars == Whitespace \cup {":", "$", ".", ",", "-", "/", "#", "'", "&", "%", "+", "!"}

IsWordChar(c) == c \notin NonWordChars

\* one character of the source per code point: U5408 U8A08 (he-ji, "sum"),
\* U7E3D U8A08 (zong-ji, "grand total"), U5C0F U8A08 (xiao-ji, "subtotal"),
\* U5143 (yuan)

-----------------------------------------------------------------------------
(* Strings *)

\* s[a..b], empty when b < a
Slice(s, a, b) == IF b < a THEN <<>> ELSE SubSeq(s, a, b)

\* sub == s[i : i+len(sub)]
OccursAt(sub, s, i) ==
    /\ i >= 1
    /\ i + Len(sub) - 1 <= Len(s)
    /\ \A j \in 1..Len(sub) : s[i + j - 1] = sub[j]

\* Python's `sub in s`
Contains(s, sub) == \E i \in 1..(Len(s) + 1) : OccursAt(sub, s, i)

\* str.strip()
Strip(s) ==
    LET keep == {i \in 1..Len(s) : s[i] \notin Whitespace}
    IN  IF keep = {} THEN <<>>
        ELSE LET a == CHOOSE i \in keep : \A j \in keep : i <= j
                 b == CHOOSE i \in keep : \A j \in keep : i >= j
             IN  SubSeq(s, a, b)

\* str.split('\n'): the lines of s, always at least one
RECURSIVE SplitFrom(_, _)
SplitFrom(s, i) ==
    IF \A j \in i..Len(s) : s[j] # NL THEN <<Slice(s, i, Len(s))>>
    ELSE With(CHOOSE j \in i..Len(s) : s[j] = NL /\ \A m \in i..(j - 1) : s[m] # NL,
              LAMBDA j : <<Slice(s, i, j - 1)>> \o SplitFrom(s, j + 1))

SplitLines(s) == SplitFrom(s, 1)

\* '\n'.join(lines)
RECURSIVE JoinLines(_)
JoinLines(lines) ==
    IF Len(lines) = 0 THEN <<>>
    ELSE IF Len(lines) = 1 THEN lines[1]
    ELSE lines[1] \o <<NL>> \o JoinLines(Tail(lines))

-----------------------------------------------------------------------------
(* Regular expressions: a pattern is a sequence of items, each a character *)
(* class with a greedy repetition lo..hi (hi = -1: unbounded), matched     *)
(* with backtracking as Python's re does.                                  *)

Lit(c) == [cls |-> {c}, lo |-> 1, hi |-> 1]
Opt(set) == [cls |-> set, lo |-> 0, hi |-> 1]
Star(set) == [cls |-> set, lo |-> 0, hi |-> -1]
Plus(set) == [cls |-> set, lo |-> 1, hi |-> -1]
Rep(set, lo, hi) == [cls |-> set, lo |-> lo, hi |-> hi]

NoMatch == [ok |-> FALSE, start |-> 0, ends |-> <<>>]

\* the number of characters from position i on that item it can take
RECURSIVE RunLength(_, _, _, _, _)
RunLength(it, s, i, ic, n) ==
    IF (it.hi >= 0 /\ n >= it.hi) \/ i + n > Len(s) THEN n
    ELSE IF (IF ic THEN LowerChar(s[i + n]) ELSE s[i + n]) \in it.cls
         THEN RunLength(it, s, i, ic, n + 1)
         ELSE n

\* items k.. of pat matched at position i: the end position of each item
RECURSIVE MatchFrom(_, _, _, _, _)
RECURSIVE TryCount(_, _, _, _, _, _)
MatchFrom(pat, k, s, i, ic) ==
    IF k > Len(pat) THEN [ok |-> TRUE, start |-> i, ends |-> <<>>]
    ELSE With(RunLength(pat[k], s, i, ic, 0),
              LAMBDA n : IF n < pat[k].lo THEN NoMatch
                         ELSE TryCount(pat, k, s, i, ic, n))

TryCount(pat, k, s, i, ic, c) ==
    With(MatchFrom(pat, k + 1, s, i + c, ic),
         LAMBDA r : IF r.ok THEN [ok |-> TRUE, start |-> i, ends |-> <<i + c>> \o r.ends]
                    ELSE IF c > pat[k].lo THEN TryCount(pat, k, s, i, ic, c - 1)
                    ELSE NoMatch)

\* re.match(pat, s): a match at the start of s
ReMatch(pat, s, ic) == MatchFrom(pat, 1, s, 1, ic)

\* re.search(pat, s): the leftmost match
RECURSIVE SearchFrom(_, _, _, _)
SearchFrom(pat, s, i, ic) ==
    IF i > Len(s) + 1 THEN NoMatch
    ELSE With(MatchFrom(pat, 1, s, i, ic),
              LAMBDA r : IF r.ok THEN r ELSE SearchFrom(pat, s, i + 1, ic))

ReSearch(pat, s, ic) == SearchFrom(pat, s, 1, ic)

\* match.group(): the matched text (ends are the positions after each item)
MatchEnd(m) == IF Len(m.ends) = 0 THEN m.start ELSE m.ends[Len(m.ends)]
Group0(m, s) == Slice(s, m.start, MatchEnd(m) - 1)

\* the text matched by items a..b of the pattern
GroupItems(m, s, a, b) ==
    Slice(s, IF a = 1 THEN m.start ELSE m.ends[a - 1], m.ends[b] - 1)

-----------------------------------------------------------------------------
(* datetime.strptime *)

RECURSIVE DigitsValue(_)
DigitValue(c) == CHOOSE n \in 0..9 : <<"0", "1", "2", "3", "4", "5", "6", "7", "8", "9">>[n + 1] = c
DigitsValue(ds) ==
    IF Len(ds) = 0 THEN 0
    ELSE 10 * DigitsValue(SubSeq(ds, 1, Len(ds) - 1)) + DigitValue(ds[Len(ds)])

IsDigitAt(s, i) == i >= 1 /\ i <= Len(s) /\ s[i] \in Digit

FieldFail == [ok |-> FALSE, val |-> 0, next |-> 0]

\* one directive of a format matched at position i, by _strptime's regular
\* expressions: %Y \d\d\d\d; %y \d\d; %m 1[0-2]|0[1-9]|[1-9];
\* %d 3[01]|[12]\d|0[1-9]|[1-9]
ParseDirective(dir, s, i) ==
    LET two == IF IsDigitAt(s, i) /\ IsDigitAt(s, i + 1)
               THEN DigitsValue(SubSeq(s, i, i + 1)) ELSE -1
        one == IF IsDigitAt(s, i) THEN DigitValue(s[i]) ELSE -1
    IN  CASE dir = "%Y" ->
               IF \A j \in i..(i + 3) : IsDigitAt(s, j)
               THEN [ok |-> TRUE, val |-> DigitsValue(SubSeq(s, i, i + 3)), next |-> i + 4]
               ELSE FieldFail
          [] dir = "%y" ->
               IF two >= 0 THEN [ok |-> TRUE, val |-> two, next |-> i + 2] ELSE FieldFail
          [] dir = "%m" ->
               IF two >= 10 /\ two <= 12 THEN [ok |-> TRUE, val |-> two, next |-> i + 2]
               ELSE IF two >= 1 /\ two <= 9 THEN [ok |-> TRUE, val |-> two, next |-> i + 2]
               ELSE IF one >= 1 THEN [ok |-> TRUE, val |-> one, next |-> i + 1]
               ELSE FieldFail
          [] dir = "%d" ->
               IF two >= 30 /\ two <= 31 THEN [ok |-> TRUE, val |-> two, next |-> i + 2]
               ELSE IF two >= 10 /\ two <= 29 THEN [ok |-> TRUE, val |-> two, next |-> i + 2]
               ELSE IF two >= 1 /\ two <= 9 THEN [ok |-> TRUE, val |-> two, next |-> i + 2]
               ELSE IF one >= 1 THEN [ok |-> TRUE, val |-> one, next |-> i + 1]
               ELSE FieldFail
          [] OTHER ->  \* a literal character of the format
               IF i <= Len(s) /\ s[i] = dir
               THEN [ok |-> TRUE, val |-> 0, next |-> i + 1] ELSE FieldFail

IsLeap(y) == (y % 4 = 0 /\ y % 100 # 0) \/ y % 400 = 0

DaysInMonth(y, m) ==
    IF m = 2 THEN (IF IsLeap(y) THEN 29 ELSE 28)
    ELSE IF m \in {4, 6, 9, 11} THEN 30 ELSE 31

\* datetime's own range check (MINYEAR..MAXYEAR, the month, the day)
ValidDate(y, m, d) ==
    /\ y >= 1 /\ y <= 9999
    /\ m >= 1 /\ m <= 12
    /\ d >= 1 /\ d <= DaysInMonth(y, m)

\* a two-digit year: 69..99 -> 1969..1999, 00..68 -> 2000..2068
CenturyYear(yy) == IF yy <= 68 THEN 2000 + yy ELSE 1900 + yy

ValueError == [ok |-> FALSE]

\* the fields of fmt[k..] read from s[i..]; f holds the fields read so far
RECURSIVE StrptimeFrom(_, _, _, _, _)
StrptimeFrom(fmt, k, s, i, f) ==
    IF k > Len(fmt)
    THEN IF i # Len(s) + 1 THEN ValueError     \* unconverted data remains
         ELSE IF ValidDate(f.year, f.month, f.day)
              THEN [ok |-> TRUE,
                    val |-> [year |-> f.year, month |-> f.month, day |-> f.day,
                             hour |-> 0, minute |-> 0, second |-> 0]]
              ELSE ValueError
    ELSE With(ParseDirective(fmt[k], s, i),
              LAMBDA p :
                IF ~p.ok THEN ValueError
                ELSE StrptimeFrom(fmt, k + 1, s, p.next,
                       CASE fmt[k] = "%Y" -> [f EXCEPT !.year = p.val]
                         [] fmt[k] = "%y" -> [f EXCEPT !.year = CenturyYear(p.val)]
                         [] fmt[k] = "%m" -> [f EXCEPT !.month = p.val]
                         [] fmt[k] = "%d" -> [f EXCEPT !.day = p.val]
                         [] OTHER -> f))

\* datetime.strptime(date_str, fmt); the defaults are 1900-01-01
Strptime(s, fmt) == StrptimeFrom(fmt, 1, s, 1, [year |-> 1900, month |-> 1, day |-> 1])

-----------------------------------------------------------------------------
(* OCRService._extract_date *)

date_patterns == <<
    <<Rep(Digit, 4, 4), Rep(DateSep, 1, 1), Rep(Digit, 1, 2),
      Rep(DateSep, 1, 1), Rep(Digit, 1, 2)>>,
    <<Rep(Digit, 1, 2), Rep(DateSep, 1, 1), Rep(Digit, 1, 2),
      Rep(DateSep, 1, 1), Rep(Digit, 4, 4)>>,
    <<Rep(Digit, 1, 2), Rep(DateSep, 1, 1), Rep(Digit, 1, 2),
      Rep(DateSep, 1, 1), Rep(Digit, 2, 2)>> >>

date_formats == <<
    <<"%Y", "-", "%m", "-", "%d">>,
    <<"%Y", "/", "%m", "/", "%d">>,
    <<"%d", "-", "%m", "-", "%Y">>,
    <<"%m", "/", "%d", "/", "%Y">>,
    <<"%d", "-", "%m", "-", "%y">>,
    <<"%m", "/", "%d", "/", "%y">> >>

\* the inner loop: the first format from k on that parses date_str
RECURSIVE TryFormats(_, _)
TryFormats(date_str, k) ==
    IF k > Len(date_formats) THEN Null
    ELSE With(Strptime(date_str, date_formats[k]),
              LAMBDA r : IF r.ok THEN Some(r.val) ELSE TryFormats(date_str, k + 1))

\* the outer loop, from pattern k on: a pattern whose match parses under no
\* format falls through to the next pattern
RECURSIVE ExtractDateFrom(_, _)
ExtractDateFrom(t, k) ==
    IF k > Len(date_patterns) THEN Null
    ELSE With(ReSearch(date_patterns[k], t, FALSE),
              LAMBDA m :
                IF ~m.ok THEN ExtractDateFrom(t, k + 1)
                ELSE With(TryFormats(Group0(m, t), 1),
                          LAMBDA r : IF r.some THEN r ELSE ExtractDateFrom(t, k + 1)))

_extract_date(t) == ExtractDateFrom(t, 1)

-----------------------------------------------------------------------------
(* OCRService._extract_merchant *)

\* ^\d+[-/]\d+[-/]\d+ : a line that starts like a date
LeadingDatePattern == <<Plus(Digit), Rep(DateSep, 1, 1), Plus(Digit), Rep(DateSep, 1, 1), Plus(Digit)>>

\* \$\d+
DollarDigitsPattern == <<Lit("$"), Plus(Digit)>>

\* \d+\.\d+
DecimalNumberPattern == <<Plus(Digit), Lit("."), Plus(Digit)>>

skip_words == <<
    <<"r", "e", "c", "e", "i", "p", "t">>,
    <<"i", "n", "v", "o", "i", "c", "e">>,
    <<"d", "a", "t", "e">>,
    <<"t", "i", "m", "e">>,
    <<"t", "o", "t", "a", "l">>,
    <<"a", "m", "o", "u", "n", "t">>,
    <<"t", "a", "x">>,
    <<"s", "u", "b", "t", "o", "t", "a", "l">>,
    <<"s", "u", "m">> >>

\* lines[:5]
MerchantScanLines == 5

\* the condition without the two amount checks
IsMerchantLineNoAmountCheck(line) ==
    /\ Len(line) > 2
    /\ ~ReMatch(LeadingDatePattern, line, FALSE).ok
    /\ ~\E w \in 1..Len(skip_words) : Contains(Lower(line), skip_words[w])

\* the condition under which the loop returns the (stripped) line
IsMerchantLine(line) ==
    /\ Len(line) > 2
    /\ ~ReMatch(LeadingDatePattern, line, FALSE).ok
    /\ ~\E w \in 1..Len(skip_words) : Contains(Lower(line), skip_words[w])
    /\ ~ReSearch(DollarDigitsPattern, line, FALSE).ok
    /\ ~ReSearch(DecimalNumberPattern, line, FALSE).ok

\* the lines the loop inspects
MerchantCandidates(t) ==
    With(SplitLines(t),
         LAMBDA lines :
           SubSeq(lines, 1, IF Len(lines) < MerchantScanLines THEN Len(lines)
                            ELSE MerchantScanLines))

RECURSIVE FirstMerchant(_, _)
FirstMerchant(lines, k) ==
    IF k > Len(lines) THEN Null
    ELSE With(Strip(lines[k]),
              LAMBDA line : IF IsMerchantLine(line) THEN Some(line)
                            ELSE FirstMerchant(lines, k + 1))

_extract_merchant(t) == FirstMerchant(MerchantCandidates(t), 1)

-----------------------------------------------------------------------------
(* decimal.Decimal *)

InvalidOperation == [ok |-> FALSE]

\* the coefficient's digits: no leading zero, "0" for zero
RECURSIVE Coefficient(_)
Coefficient(ds) ==
    IF Len(ds) > 1 /\ ds[1] = "0" THEN Coefficient(Tail(ds)) ELSE ds

\* Decimal(s) for s of the shape digits* [.] digits* (what the amount group
\* leaves once its commas are removed): the digits and the exponent, or
\* InvalidOperation when s holds no digit
Decimal(s) ==
    LET dots == {i \in 1..Len(s) : s[i] = "."}
        ds == SelectSeq(s, LAMBDA c : c \in Digit)
    IN  IF Len(ds) = 0 \/ Cardinality(dots) > 1 \/ \E i \in 1..Len(s) : s[i] \notin Digit \cup {"."}
        THEN InvalidOperation
        ELSE [ok |-> TRUE,
              val |-> [digits |-> Coefficient(ds),
                       exp |-> IF dots = {} THEN 0
                               ELSE 0 - (Len(s) - (CHOOSE i \in dots : TRUE))]]

-----------------------------------------------------------------------------
(* OCRService._extract_amount_and_currency *)

\* ([0-9,]+\.?\d*)
AmountGroup == <<Plus(Digit \cup {","}), Opt({"."}), Star(Digit)>>

\* each pattern with the items of its group(1); searched with re.IGNORECASE
currency_patterns == <<
    [re |-> <<Lit("n"), Lit("t"), Opt({"$"}), Star(Whitespace)>> \o AmountGroup,
     first |-> 5, last |-> 7, currency |-> "NTD"],
    [re |-> <<Lit("h"), Lit("k"), Opt({"$"}), Star(Whitespace)>> \o AmountGroup,
     first |-> 5, last |-> 7, currency |-> "HKD"],
    [re |-> <<Lit("u"), Lit("s"), Opt({"$"}), Star(Whitespace)>> \o AmountGroup,
     first |-> 5, last |-> 7, currency |-> "USD"],
    [re |-> <<Lit("$"), Star(Whitespace)>> \o AmountGroup,
     first |-> 3, last |-> 5, currency |-> "USD"],
    [re |-> AmountGroup \o <<Star(Whitespace), Lit("U5143")>>,
     first |-> 1, last |-> 3, currency |-> "NTD"] >>

total_keywords == <<
    <<"t", "o", "t", "a", "l">>,
    <<"a", "m", "o", "u", "n", "t">>,
    <<"s", "u", "m">>,
    <<"U5408", "U8A08">>,
    <<"U7E3D", "U8A08">>,
    <<"U5C0F", "U8A08">> >>

\* the dict returned: {} has neither key; dict.get(key) is the field
EmptyDict == [raised |-> FALSE, amount |-> Null, currency |-> Null]

\* a dict that lacks the 'currency' key
AmountDictWithoutCurrency(amount, currency) ==
    [raised |-> FALSE, amount |-> Some(amount), currency |-> Null]

\* {'amount': amount, 'currency': currency}
AmountDict(amount, currency) ==
    [raised |-> FALSE, amount |-> Some(amount), currency |-> Some(currency)]

\* an exception leaving the function
Raised == [raised |-> TRUE, amount |-> Null, currency |-> Null]

\* the dict is not {}
Found(d) == d.amount.some \/ d.currency.some

\* no handler around Decimal(amount_str): the exception leaves the function
InvalidAmountPropagates(rest) == Raised

\* the except clause giving up: {} as soon as a number does not parse
InvalidAmountGivesUp(rest) == EmptyDict

\* `except: continue` around Decimal(amount_str): go on with the rest
OnInvalidAmount(rest) == rest

\* match.group(1).replace(',', '')
AmountStr(m, s, p) == SelectSeq(GroupItems(m, s, p.first, p.last), LAMBDA c : c # ",")

\* the loop over currency_patterns from pattern k on, applied to s (a line,
\* or the whole text in the last pass)
RECURSIVE TryPatterns(_, _)
TryPatterns(s, k) ==
    IF k > Len(currency_patterns) THEN EmptyDict
    ELSE With(ReSearch(currency_patterns[k].re, s, TRUE),
              LAMBDA m :
                IF ~m.ok THEN TryPatterns(s, k + 1)
                ELSE With(Decimal(AmountStr(m, s, currency_patterns[k])),
                          LAMBDA amount :
                            IF amount.ok
                            THEN AmountDict(amount.val, currency_patterns[k].currency)
                            ELSE OnInvalidAmount(TryPatterns(s, k + 1))))

\* first pass: 'total' in line_lower and 'subtotal' not in line_lower
IsTotalLine(line) ==
    /\ Contains(Lower(line), <<"t", "o", "t", "a", "l">>)
    /\ ~Contains(Lower(line), <<"s", "u", "b", "t", "o", "t", "a", "l">>)

\* second pass: any(keyword in line_lower for keyword in total_keywords)
IsKeywordLine(line) ==
    \E w \in 1..Len(total_keywords) : Contains(Lower(line), total_keywords[w])

\* one pass over the lines from line k on: the first selected line on which
\* a pattern matches and parses
\* the line condition of pass 1 and of pass 2
Selected(pass, line) == IF pass = 1 THEN IsTotalLine(line) ELSE IsKeywordLine(line)

RECURSIVE ScanLines(_, _, _)
ScanLines(lines, k, pass) ==
    IF k > Len(lines) THEN EmptyDict
    ELSE IF ~Selected(pass, lines[k]) THEN ScanLines(lines, k + 1, pass)
    ELSE With(TryPatterns(lines[k], 1),
              LAMBDA r : IF Found(r) \/ r.raised THEN r
                         ELSE ScanLines(lines, k + 1, pass))

\* the keyword pass run before the 'total' pass
ExtractAmountKeywordPassFirst(t) ==
    With(SplitLines(t),
         LAMBDA lines :
           With(ScanLines(lines, 1, 2),
                LAMBDA pass2 :
                  IF Found(pass2) \/ pass2.raised THEN pass2
                  ELSE With(ScanLines(lines, 1, 1),
                            LAMBDA pass1 :
                              IF Found(pass1) \/ pass1.raised THEN pass1
                              ELSE TryPatterns(t, 1))))

_extract_amount_and_currency(t) ==
    With(SplitLines(t),
         LAMBDA lines :
           With(ScanLines(lines, 1, 1),
                LAMBDA pass1 :
                  IF Found(pass1) \/ pass1.raised THEN pass1
                  ELSE With(ScanLines(lines, 1, 2),
                            LAMBDA pass2 :
                              IF Found(pass2) \/ pass2.raised THEN pass2
                              ELSE TryPatterns(t, 1))))

-----------------------------------------------------------------------------
(* OCRService._extract_items *)

\* items[:10]
ItemLimit == 10

\* total|amount|<he-ji>|<zong-ji>, searched in line.lower()
item_stop_words == <<
    <<"t", "o", "t", "a", "l">>,
    <<"a", "m", "o", "u", "n", "t">>,
    <<"U5408", "U8A08">>,
    <<"U7E3D", "U8A08">> >>

IsItemLine(line) ==
    /\ Len(line) > 2
    /\ ~ReMatch(LeadingDatePattern, line, FALSE).ok
    /\ ~\E w \in 1..Len(item_stop_words) : Contains(Lower(line), item_stop_words[w])

RECURSIVE CollectItems(_, _)
CollectItems(lines, k) ==
    IF k > Len(lines) THEN <<>>
    ELSE With(Strip(lines[k]),
              LAMBDA line : (IF IsItemLine(line) THEN <<line>> ELSE <<>>)
                            \o CollectItems(lines, k + 1))

\* every collected line returned: no [:10]
ExtractItemsUnlimited(t) == CollectItems(SplitLines(t), 1)

_extract_items(t) ==
    With(CollectItems(SplitLines(t), 1),
         LAMBDA items :
           SubSeq(items, 1, IF Len(items) < ItemLimit THEN Len(items) ELSE ItemLimit))

-----------------------------------------------------------------------------
(* OCRService._parse_receipt_text *)

\* ReceiptData(): every field None, items []
NewReceiptData ==
    [date |-> Null, merchant |-> Null, category |-> Null, amount |-> Null,
     currency |-> Null, items |-> <<>>, raw_text |-> Null, confidence |-> Null]

\* the items of the last record _parse_receipt_text built
LastParsedItems ==
    IF \E i \in 1..Len(history) : history[i].method = "parse"
    THEN history[CHOOSE i \in 1..Len(history) :
                     /\ history[i].method = "parse"
                     /\ \A j \in (i + 1)..Len(history) : history[j].method # "parse"].result.items
    ELSE <<>>

\* a parse that goes on filling the list of items of the call before
ParseKeepingItems(t) ==
    With(_extract_amount_and_currency(t),
         LAMBDA amount_info :
           IF amount_info.raised THEN [raised |-> TRUE, data |-> NewReceiptData]
           ELSE [raised |-> FALSE,
                 data |-> [NewReceiptData EXCEPT
                             !.date = _extract_date(t),
                             !.merchant = _extract_merchant(t),
                             !.amount = amount_info.amount,
                             !.currency = amount_info.currency,
                             !.items = LastParsedItems \o _extract_items(t)]])

\* the record built, or raised when an exception leaves an extractor
_parse_receipt_text(t) ==
    With(_extract_amount_and_currency(t),
         LAMBDA amount_info :
           IF amount_info.raised THEN [raised |-> TRUE, data |-> NewReceiptData]
           ELSE [raised |-> FALSE,
                 data |-> [NewReceiptData EXCEPT
                             !.date = _extract_date(t),
                             !.merchant = _extract_merchant(t),
                             !.amount = amount_info.amount,
                             !.currency = amount_info.currency,
                             !.items = _extract_items(t)]])

-----------------------------------------------------------------------------
(* Python dicts, which keep insertion order: a sequence of key/value entries *)

DictKeys(d) == {d[i].key : i \in 1..Len(d)}

\* d[k]
DictGet(d, k) == d[CHOOSE i \in 1..Len(d) : d[i].key = k].value

\* d[k] = v: the value replaced in place, or a new entry at the end
DictSet(d, k, v) ==
    IF k \in DictKeys(d)
    THEN [i \in 1..Len(d) |-> IF d[i].key = k THEN [key |-> k, value |-> v] ELSE d[i]]
    ELSE Append(d, [key |-> k, value |-> v])

\* {**a, **b}: a's entries, then b's set one by one
RECURSIVE DictMergeFrom(_, _, _)
DictMergeFrom(a, b, i) ==
    IF i > Len(b) THEN a
    ELSE DictMergeFrom(DictSet(a, b[i].key, b[i].value), b, i + 1)

DictMerge(a, b) == DictMergeFrom(a, b, 1)

-----------------------------------------------------------------------------
(* CategoryConfig *)

\* self.default_categories as __init__ builds it (CJK characters by code point)
DefaultCategories == <<
    [key |-> "Food & Dining",
     value |-> [
       keywords |-> <<<<"r", "e", "s", "t", "a", "u", "r", "a", "n", "t">>,
                     <<"U9910", "U5EF3">>,
                     <<"c", "a", "f", "e">>,
                     <<"U5496", "U5561">>,
                     <<"f", "o", "o", "d">>,
                     <<"U98DF", "U7269">>,
                     <<"d", "i", "n", "i", "n", "g">>,
                     <<"m", "e", "a", "l">>,
                     <<"U98EF", "U5E97">>,
                     <<"b", "a", "r">>,
                     <<"U9152", "U5427">>>>,
       merchants |-> <<<<"m", "c", "d", "o", "n", "a", "l", "d", "s">>,
                      <<"s", "t", "a", "r", "b", "u", "c", "k", "s">>,
                      <<"s", "u", "b", "w", "a", "y">>,
                      <<"U9EA5", "U7576", "U52DE">>,
                      <<"U661F", "U5DF4", "U514B">>>>]],
    [key |-> "Transportation",
     value |-> [
       keywords |-> <<<<"u", "b", "e", "r">>,
                     <<"t", "a", "x", "i">>,
                     <<"U8A08", "U7A0B", "U8ECA">>,
                     <<"m", "r", "t">>,
                     <<"U6377", "U904B">>,
                     <<"b", "u", "s">>,
                     <<"U516C", "U8ECA">>,
                     <<"t", "r", "a", "i", "n">>,
                     <<"U706B", "U8ECA">>,
                     <<"p", "a", "r", "k", "i", "n", "g">>,
                     <<"U505C", "U8ECA">>>>,
       merchants |-> <<<<"u", "b", "e", "r">>,
                      <<"g", "r", "a", "b">>,
                      <<"t", "a", "x", "i">>,
                      <<"m", "r", "t">>>>]],
    [key |-> "Shopping",
     value |-> [
       keywords |-> <<<<"m", "a", "r", "t">>,
                     <<"U8D85", "U5E02">>,
                     <<"s", "t", "o", "r", "e">>,
                     <<"U5546", "U5E97">>,
                     <<"s", "h", "o", "p">>,
                     <<"U8CFC", "U7269">>,
                     <<"m", "a", "r", "k", "e", "t">>,
                     <<"U5E02", "U5834">>,
                     <<"m", "a", "l", "l">>,
                     <<"U5546", "U5834">>>>,
       merchants |-> <<<<"7", "-", "e", "l", "e", "v", "e", "n">>,
                      <<"f", "a", "m", "i", "l", "y", "m", "a", "r", "t">>,
                      <<"w", "a", "l", "m", "a", "r", "t">>,
                      <<"t", "a", "r", "g", "e", "t">>,
                      <<"U5168", "U5BB6">>,
                      <<"7", "-", "1", "1">>>>]],
    [key |-> "Utilities",
     value |-> [
       keywords |-> <<<<"e", "l", "e", "c", "t", "r", "i", "c">>,
                     <<"U96FB", "U529B">>,
                     <<"w", "a", "t", "e", "r">>,
                     <<"U6C34", "U8CBB">>,
                     <<"g", "a", "s">>,
                     <<"U74E6", "U65AF">>,
                     <<"i", "n", "t", "e", "r", "n", "e", "t">>,
                     <<"U7DB2", "U8DEF">>,
                     <<"p", "h", "o", "n", "e">>,
                     <<"U96FB", "U8A71">>>>,
       merchants |-> <<<<"U53F0", "U96FB">>,
                      <<"U81EA", "U4F86", "U6C34">>,
                      <<"U4E2D", "U83EF", "U96FB", "U4FE1">>>>]],
    [key |-> "Healthcare",
     value |-> [
       keywords |-> <<<<"h", "o", "s", "p", "i", "t", "a", "l">>,
                     <<"U91AB", "U9662">>,
                     <<"c", "l", "i", "n", "i", "c">>,
                     <<"U8A3A", "U6240">>,
                     <<"p", "h", "a", "r", "m", "a", "c", "y">>,
                     <<"U85E5", "U5C40">>,
                     <<"d", "o", "c", "t", "o", "r">>,
                     <<"U91AB", "U751F">>,
                     <<"m", "e", "d", "i", "c", "a", "l">>,
                     <<"U91AB", "U7642">>>>,
       merchants |-> <<<<"h", "o", "s", "p", "i", "t", "a", "l">>,
                      <<"c", "l", "i", "n", "i", "c">>>>]],
    [key |-> "Entertainment",
     value |-> [
       keywords |-> <<<<"m", "o", "v", "i", "e">>,
                     <<"U96FB", "U5F71">>,
                     <<"c", "i", "n", "e", "m", "a">>,
                     <<"U6232", "U9662">>,
                     <<"g", "a", "m", "e">>,
                     <<"U904A", "U6232">>,
                     <<"b", "o", "o", "k">>,
                     <<"U66F8">>,
                     <<"m", "u", "s", "i", "c">>,
                     <<"U97F3", "U6A02">>>>,
       merchants |-> <<<<"n", "e", "t", "f", "l", "i", "x">>,
                      <<"s", "p", "o", "t", "i", "f", "y">>,
                      <<"c", "i", "n", "e", "m", "a">>>>]],
    [key |-> "Office Supplies",
     value |-> [
       keywords |-> <<<<"s", "t", "a", "t", "i", "o", "n", "e", "r", "y">>,
                     <<"U6587", "U5177">>,
                     <<"o", "f", "f", "i", "c", "e">>,
                     <<"U8FA6", "U516C">>,
                     <<"p", "a", "p", "e", "r">>,
                     <<"U7D19", "U5F35">>,
                     <<"p", "e", "n">>,
                     <<"U7B46">>,
                     <<"c", "o", "m", "p", "u", "t", "e", "r">>,
                     <<"U96FB", "U8166">>>>,
       merchants |-> <<<<"o", "f", "f", "i", "c", "e", " ", "d", "e", "p", "o", "t">>,
                      <<"s", "t", "a", "p", "l", "e", "s">>>>]],
    [key |-> "Other",
     value |-> [
       keywords |-> <<>>,
       merchants |-> <<>>]] >>

\* `not s` for an Optional[str]: None or ''
Falsy(s) == ~s.some \/ s.val = <<>>

\* (s or '').lower()
LowerOrEmpty(s) == IF Falsy(s) THEN <<>> ELSE Lower(s.val)

\* position p of s lies between a word character and a non-word character
\* (or an end of s): the regular expressions' \b
IsWordAt(s, p) == p >= 1 /\ p <= Len(s) /\ IsWordChar(s[p])
WordBoundary(s, p) == IsWordAt(s, p - 1) # IsWordAt(s, p)

\* keyword found by plain containment: no \b
KeywordSearchSubstring(keyword, s) == Contains(s, keyword)

\* re.search(r'\b' + re.escape(keyword) + r'\b', s)
KeywordSearch(keyword, s) ==
    \E i \in 1..(Len(s) + 1) :
        /\ OccursAt(keyword, s, i)
        /\ WordBoundary(s, i)
        /\ WordBoundary(s, i + Len(keyword))

\* the body of the loop for one category: a merchant pattern contained in
\* merchant, or a keyword found in text or merchant
RuleMatches(config, merchant, t) ==
    \/ \E m \in 1..Len(config.merchants) : Contains(merchant, Lower(config.merchants[m]))
    \/ \E k \in 1..Len(config.keywords) :
          \/ KeywordSearch(Lower(config.keywords[k]), t)
          \/ KeywordSearch(Lower(config.keywords[k]), merchant)

\* a name no table carries
NoMatchUncategorized == "Uncategorized"

\* what the function returns when the loop ends without a match
NoMatchCategory == "Other"

\* rules tried by kind: every rule's merchant patterns, then every rule's
\* keywords
ClassifyMerchantsFirst(all_categories, i, merchant, t) ==
    LET byMerchant == {j \in i..Len(all_categories) :
                          \E m \in 1..Len(all_categories[j].value.merchants) :
                              Contains(merchant, Lower(all_categories[j].value.merchants[m]))}
        byRule == {j \in i..Len(all_categories) :
                      RuleMatches(all_categories[j].value, merchant, t)}
    IN  IF byMerchant # {}
        THEN all_categories[CHOOSE j \in byMerchant : \A k \in byMerchant : j <= k].key
        ELSE IF byRule # {}
        THEN all_categories[CHOOSE j \in byRule : \A k \in byRule : j <= k].key
        ELSE NoMatchCategory

\* the loop over all_categories.items() from entry i on
RECURSIVE ClassifyFrom(_, _, _, _)
ClassifyFrom(all_categories, i, merchant, t) ==
    IF i > Len(all_categories) THEN NoMatchCategory
    ELSE IF RuleMatches(all_categories[i].value, merchant, t) THEN all_categories[i].key
    ELSE ClassifyFrom(all_categories, i + 1, merchant, t)

\* all_categories = {**self.custom_categories, **self.default_categories}
AllCategories(default, custom) == DictMerge(custom, default)

categorize_receipt(default, custom, r) ==
    IF Falsy(r.merchant) /\ Falsy(r.raw_text) THEN "Other"
    ELSE ClassifyFrom(AllCategories(default, custom), 1,
                      LowerOrEmpty(r.merchant), LowerOrEmpty(r.raw_text))

\* {**self.default_categories, **self.custom_categories}
get_all_categories(default, custom) == DictMerge(default, custom)

\* a read that keeps the merged table as the custom table
ReadStoresMergedTable(default, custom) ==
    [default |-> default, custom |-> DictMerge(custom, default)]

\* both tables after categorize_receipt or get_all_categories: each builds a
\* new dict and assigns nothing to self
AfterRead(default, custom) == [default |-> default, custom |-> custom]

\* self.custom_categories after add_custom_category(name, keywords, merchants)
add_custom_category(custom, name, keywords, merchants) ==
    DictSet(custom, name, [keywords |-> keywords, merchants |-> merchants])

\* d with keyword appended to d[category]['keywords']
AppendKeyword(d, category, keyword) ==
    DictSet(d, category,
            [DictGet(d, category) EXCEPT !.keywords = Append(@, keyword)])

\* a call that adds the category when no table carries the name
AddKeywordCreatesCategory(default, custom, category, keyword) ==
    IF category \in DictKeys(default)
    THEN [default |-> AppendKeyword(default, category, keyword), custom |-> custom]
    ELSE IF category \in DictKeys(custom)
    THEN [default |-> default, custom |-> AppendKeyword(custom, category, keyword)]
    ELSE [default |-> default,
          custom |-> DictSet(custom, category, [keywords |-> <<keyword>>, merchants |-> <<>>])]

\* both tables after add_keyword_to_category(category, keyword)
add_keyword_to_category(default, custom, category, keyword) ==
    IF category \in DictKeys(default)
    THEN [default |-> AppendKeyword(default, category, keyword), custom |-> custom]
    ELSE IF category \in DictKeys(custom)
    THEN [default |-> default, custom |-> AppendKeyword(custom, category, keyword)]
    ELSE [default |-> default, custom |-> custom]

\* CategoryConfig() as __init__ leaves it, before any call
InitCategoryConfig ==
    /\ default_categories = DefaultCategories
    /\ custom_categories = <<>>
    /\ receipt = Null
    /\ mutations = 0
    /\ args = Null

\* the module-level services of main.py before any request or call
InitApp ==
    /\ history = <<>>
    /\ response = Null
    /\ calls = <<>>
    /\ message = Null
    /\ requests = <<>>
    /\ receipts = <<>>

-----------------------------------------------------------------------------
(* The interpreter as a state machine: a text arrives (Init), and one of   *)
(* the service's methods is applied to it.                                 *)

\* ""
line_blank == <<>>
\* "STARBUCKS"
line_merchant == <<"S", "T", "A", "R", "B", "U", "C", "K", "S">>
\* "99/99/99"
line_bad_date == <<"9", "9", "/", "9", "9", "/", "9", "9">>
\* "Subtotal: $8.50"
line_subtotal == <<"S", "u", "b", "t", "o", "t", "a", "l", ":", " ", "$", "8", ".", "5", "0">>
\* "Total: $9.18"
line_total == <<"T", "o", "t", "a", "l", ":", " ", "$", "9", ".", "1", "8">>
\* "Total: $,": the amount group holds no digit
line_bad_total == <<"T", "o", "t", "a", "l", ":", " ", "$", ",">>
\* "Amount: NT$100"
line_amount == <<"A", "m", "o", "u", "n", "t", ":", " ", "N", "T", "$", "1", "0", "0">>
\* "$5"
line_bare == <<"$", "5">>
\* "<he-ji>: 200<yuan>"
line_heji == <<"U5408", "U8A08", ":", " ", "2", "0", "0", "U5143">>

Vocabulary == {line_blank, line_merchant, line_bad_date, line_subtotal, line_total, line_bad_total, line_amount, line_bare, line_heji}

\* the longest text, in lines
MaxLines == 3

\* every text of 1..n lines drawn from the set lines
TextsOf(lines, n) == {JoinLines(ls) : ls \in UNION {[1..k -> lines] : k \in 1..n}}

ParseTexts == TextsOf(Vocabulary, MaxLines)

Init ==
    /\ text \in ParseTexts
    /\ result = Null
    /\ raised = FALSE
    /\ op = "input"
    /\ written = Null
    /\ InitCategoryConfig
    /\ InitApp

\* service._parse_receipt_text(text)
ParseReceiptText ==
    /\ op = "input"
    /\ \E r \in {_parse_receipt_text(text)} :
           /\ result' = r.data
           /\ raised' = r.raised
    /\ op' = "parse"
    /\ UNCHANGED <<text, written, category_vars, app_vars>>

\* service._extract_date(text)
ExtractDate ==
    /\ op = "input"
    /\ result' = _extract_date(text)
    /\ op' = "date"
    /\ UNCHANGED <<text, raised, written, category_vars, app_vars>>

\* service._extract_merchant(text)
ExtractMerchant ==
    /\ op = "input"
    /\ result' = _extract_merchant(text)
    /\ op' = "merchant"
    /\ UNCHANGED <<text, raised, written, category_vars, app_vars>>

\* service._extract_amount_and_currency(text)
ExtractAmountAndCurrency ==
    /\ op = "input"
    /\ \E r \in {_extract_amount_and_currency(text)} :
           /\ result' = [amount |-> r.amount, currency |-> r.currency]
           /\ raised' = r.raised
    /\ op' = "amount"
    /\ UNCHANGED <<text, written, category_vars, app_vars>>

\* service._extract_items(text)
ExtractItems ==
    /\ op = "input"
    /\ result' = _extract_items(text)
    /\ op' = "items"
    /\ UNCHANGED <<text, raised, written, category_vars, app_vars>>

Next ==
    \/ ParseReceiptText
    \/ ExtractDate
    \/ ExtractMerchant
    \/ ExtractAmountAndCurrency
    \/ ExtractItems

Spec == Init /\ [][Next]_vars

-----------------------------------------------------------------------------
(* Properties of the interpreter, under Spec *)

\* C1: after _parse_receipt_text (the record) and after
\* _extract_amount_and_currency (the dict), amount and currency are both
\* present or both absent, and a present currency is NTD, HKD or USD.
C1_AmountCurrencyPaired ==
    op \in {"parse", "amount"} =>
        /\ result.amount.some <=> result.currency.some
        /\ result.currency.some => result.currency.val \in {"NTD", "HKD", "USD"}

\* a merchant line followed by "Amount: NT$100": both fields are present
C1_Witness ==
    /\ op = "parse"
    /\ text = JoinLines(<<line_merchant, line_amount>>)
    /\ result.amount.some
    /\ result.currency.some
    /\ result.currency.val = "NTD"

\* what "finds nothing" means for each extractor, read off the text
NoDateLike(t) == \A k \in 1..Len(date_patterns) : ~ReSearch(date_patterns[k], t, FALSE).ok
NoMonetaryPattern(t) ==
    \A k \in 1..Len(currency_patterns) : ~ReSearch(currency_patterns[k].re, t, TRUE).ok
NoLineLongerThanTwo(t) ==
    \A k \in 1..Len(SplitLines(t)) : Len(Strip(SplitLines(t)[k])) <= 2

\* C2: for every text (the empty string, malformed dates and malformed
\* numbers included) no call raises, and an extractor that finds nothing
\* yields None, [] or {}.
C2_NeverRaises ==
    /\ op # "input" => ~raised
    /\ op = "parse" =>
        /\ NoDateLike(text) => ~result.date.some
        /\ NoMonetaryPattern(text) => ~result.amount.some /\ ~result.currency.some
        /\ NoLineLongerThanTwo(text) => ~result.merchant.some /\ result.items = <<>>
    /\ op = "date" /\ NoDateLike(text) => ~result.some
    /\ op = "amount" /\ NoMonetaryPattern(text) => ~result.amount.some /\ ~result.currency.some
    /\ op = "merchant" /\ NoLineLongerThanTwo(text) => ~result.some
    /\ op = "items" /\ NoLineLongerThanTwo(text) => result = <<>>

\* a malformed date and a total whose number is only a comma: a record with
\* date, amount and currency absent, and nothing raised
C2_Witness ==
    /\ op = "parse"
    /\ text = JoinLines(<<line_bad_date, line_bad_total>>)
    /\ ~raised
    /\ ~result.date.some
    /\ ~result.amount.some
    /\ ~result.currency.some

\* the lines that contain 'total' but not 'subtotal' and on which a monetary
\* pattern matches and parses
ParseableTotalLines(t) ==
    {k \in 1..Len(SplitLines(t)) :
        /\ IsTotalLine(SplitLines(t)[k])
        /\ Found(TryPatterns(SplitLines(t)[k], 1))}

\* C4: when some line contains 'total' but not 'subtotal' and carries a
\* parseable monetary pattern, amount and currency come from the first such
\* line, whatever subtotal line, other keyword line or bare amount precedes it.
C4_TotalLineFirst ==
    op \in {"parse", "amount"} /\ ParseableTotalLines(text) # {} =>
        LET k == CHOOSE i \in ParseableTotalLines(text) :
                    \A j \in ParseableTotalLines(text) : i <= j
            d == TryPatterns(SplitLines(text)[k], 1)
        IN  /\ result.amount = d.amount
            /\ result.currency = d.currency

\* a bare amount, then a subtotal, then the total: the total's 9.18 USD
C4_Witness ==
    /\ op = "amount"
    /\ text = JoinLines(<<line_bare, line_subtotal, line_total>>)
    /\ result.amount = Some([digits |-> <<"9", "1", "8">>, exp |-> -2])
    /\ result.currency = Some("USD")

-----------------------------------------------------------------------------
(* _extract_items on texts long enough to pass the limit of ten: SpecItems  *)

\* "2024-01-15"
item_date == <<"2", "0", "2", "4", "-", "0", "1", "-", "1", "5">>
\* "Total: $15.50"
item_total == <<"T", "o", "t", "a", "l", ":", " ", "$", "1", "5", ".", "5", "0">>
\* "AMOUNT DUE"
item_upper == <<"A", "M", "O", "U", "N", "T", " ", "D", "U", "E">>
\* "<zong-ji> 15"
item_zongji == <<"U7E3D", "U8A08", " ", "1", "5">>
\* " ab ": two characters once trimmed
item_short == <<" ", "a", "b", " ">>
\* "  Tea  ": kept, trimmed
item_padded == <<" ", " ", "T", "e", "a", " ", " ">>
\* "12-1 pack": kept, one separator only
item_pack == <<"1", "2", "-", "1", " ", "p", "a", "c", "k">>

SpecialItemLines == {item_date, item_total, item_upper, item_zongji, item_short, item_padded, item_pack}

\* "Item A", "Item B", ...: a different item on every line
PlainItemLine(k) == <<"I", "t", "e", "m", " ">> \o <<UpperLetters[k]>>

\* the longest text of SpecItems, in lines
MaxItemLines == 12

\* n plain item lines, with the lines at the positions in at replaced by special
ItemText(n, at, special) ==
    JoinLines([k \in 1..n |-> IF k \in at THEN special ELSE PlainItemLine(k)])

ItemTexts ==
    {ItemText(n, at, special) :
        n \in 1..MaxItemLines,
        at \in {a \in SUBSET (1..MaxItemLines) : Cardinality(a) <= 2},
        special \in SpecialItemLines}

InitItems ==
    /\ text \in ItemTexts
    /\ result = Null
    /\ raised = FALSE
    /\ op = "input"
    /\ written = Null
    /\ InitCategoryConfig
    /\ InitApp

NextItems == ExtractItems

SpecItems == InitItems /\ [][NextItems]_vars

\* digits, a separator, digits, a separator, a digit, at the start of the line
StartsDateLike(l) ==
    \E a \in 1..Len(l), b \in 1..Len(l) :
        /\ a + 1 < b /\ b < Len(l)
        /\ \A i \in 1..a : l[i] \in Digit
        /\ l[a + 1] \in DateSep
        /\ \A i \in (a + 2)..(b - 1) : l[i] \in Digit
        /\ l[b] \in DateSep
        /\ l[b + 1] \in Digit

\* w occurs in l, letter case ignored (w is lower case)
ContainsIgnoringCase(l, w) ==
    \E i \in 1..Len(l) :
        /\ i + Len(w) - 1 <= Len(l)
        /\ \A j \in 1..Len(w) : LowerChar(l[i + j - 1]) = w[j]

\* a trimmed line survives the item filter
SurvivesItemFilter(l) ==
    /\ Len(l) > 2
    /\ ~StartsDateLike(l)
    /\ ~ContainsIgnoringCase(l, <<"t", "o", "t", "a", "l">>)
    /\ ~ContainsIgnoringCase(l, <<"a", "m", "o", "u", "n", "t">>)
    /\ ~ContainsIgnoringCase(l, <<"U5408", "U8A08">>)
    /\ ~ContainsIgnoringCase(l, <<"U7E3D", "U8A08">>)

\* the trimmed lines of t, in order
TrimmedLines(t) == [k \in 1..Len(SplitLines(t)) |-> Strip(SplitLines(t)[k])]

-----------------------------------------------------------------------------
(* _extract_merchant on texts of more than five lines: SpecMerchant         *)

\* ""
m_blank == <<>>
\* "ab"
m_short == <<"a", "b">>
\* "2024-01-15"
m_date == <<"2", "0", "2", "4", "-", "0", "1", "-", "1", "5">>
\* "Receipt #123"
m_stopword == <<"R", "e", "c", "e", "i", "p", "t", " ", "#", "1", "2", "3">>
\* "Save $10"
m_dollar == <<"S", "a", "v", "e", " ", "$", "1", "0">>
\* "Rate 1.5"
m_decimal == <<"R", "a", "t", "e", " ", "1", ".", "5">>
\* "  Walmart Store "
m_store == <<" ", " ", "W", "a", "l", "m", "a", "r", "t", " ", "S", "t", "o", "r", "e", " ">>
\* "7-ELEVEN"
m_eleven == <<"7", "-", "E", "L", "E", "V", "E", "N">>

\* lines the merchant filter rejects, lines it accepts
RejectedMerchantLines == {m_blank, m_short, m_date, m_stopword, m_dollar, m_decimal}
AcceptedMerchantLines == {m_store, m_eleven}

\* the longest text of SpecMerchant, in lines
MaxMerchantLines == 6

\* n lines, all filler but for the lines at p and q, which are a and b
MerchantText(n, filler, p, a, q, b) ==
    JoinLines([k \in 1..n |-> IF k = p THEN a ELSE IF k = q THEN b ELSE filler])

MerchantTexts ==
    {MerchantText(n, filler, p, a, q, b) :
        n \in 1..MaxMerchantLines,
        filler \in RejectedMerchantLines,
        p \in 1..MaxMerchantLines, a \in RejectedMerchantLines \cup AcceptedMerchantLines,
        q \in 1..MaxMerchantLines, b \in AcceptedMerchantLines}

InitMerchant ==
    /\ text \in MerchantTexts
    /\ result = Null
    /\ raised = FALSE
    /\ op = "input"
    /\ written = Null
    /\ InitCategoryConfig
    /\ InitApp

NextMerchant == ExtractMerchant

SpecMerchant == InitMerchant /\ [][NextMerchant]_vars

\* a trimmed line the merchant filter rejects
RejectedAsMerchant(l) ==
    \/ Len(l) <= 2
    \/ StartsDateLike(l)
    \/ \E w \in {<<"r", "e", "c", "e", "i", "p", "t">>,
                  <<"i", "n", "v", "o", "i", "c", "e">>,
                  <<"d", "a", "t", "e">>,
                  <<"t", "i", "m", "e">>,
                  <<"t", "o", "t", "a", "l">>,
                  <<"a", "m", "o", "u", "n", "t">>,
                  <<"t", "a", "x">>,
                  <<"s", "u", "b", "t", "o", "t", "a", "l">>,
                  <<"s", "u", "m">>} : ContainsIgnoringCase(l, w)
    \/ \E i \in 1..(Len(l) - 1) : l[i] = "$" /\ l[i + 1] \in Digit
    \/ \E i \in 2..(Len(l) - 1) : l[i - 1] \in Digit /\ l[i] = "." /\ l[i + 1] \in Digit

\* the lines the extractor inspects, trimmed: the first five of the text
InspectedLines(t) ==
    SubSeq(TrimmedLines(t), 1, IF Len(TrimmedLines(t)) < 5 THEN Len(TrimmedLines(t)) ELSE 5)

\* C6: _extract_merchant never returns a rejected line (date-like start,
\* trimmed length <= 2, a stopword, $digits, digits.digits); it returns the
\* first inspected line that passes, trimmed and in its original casing, and
\* absent when no inspected line passes.
C6_MerchantFirstSurvivor ==
    op = "merchant" =>
        LET ok == {k \in 1..Len(InspectedLines(text)) : ~RejectedAsMerchant(InspectedLines(text)[k])}
        IN  /\ result.some => ~RejectedAsMerchant(result.val)
            /\ ok = {} => ~result.some
            /\ ok # {} =>
                 /\ result.some
                 /\ result.val = InspectedLines(text)[CHOOSE k \in ok : \A j \in ok : k <= j]

\* a date line, a "$10" line, then "  Walmart Store ": returned trimmed
C6_Witness ==
    /\ op = "merchant"
    /\ text = JoinLines(<<m_date, m_dollar, m_store, m_date>>)
    /\ result = Some(<<"W", "a", "l", "m", "a", "r", "t", " ", "S", "t", "o", "r", "e">>)

-----------------------------------------------------------------------------
(* _extract_date on texts written from a calendar date: SpecDate            *)

DigitChar(n) == <<"0", "1", "2", "3", "4", "5", "6", "7", "8", "9">>[n + 1]
TwoDigits(n) == <<DigitChar(n \div 10), DigitChar(n % 10)>>
FourDigits(n) == TwoDigits(n \div 100) \o TwoDigits(n % 100)

\* a day or month field: two digits, or as few as it takes when not padded
Field(n, padded) == IF padded \/ n >= 10 THEN TwoDigits(n) ELSE <<DigitChar(n)>>

\* year y, month m and day d written in one of the six notations
WriteDate(y, m, d, notation, padded) ==
    CASE notation = "YYYY-MM-DD" -> FourDigits(y) \o <<"-">> \o Field(m, padded) \o <<"-">> \o Field(d, padded)
      [] notation = "YYYY/MM/DD" -> FourDigits(y) \o <<"/">> \o Field(m, padded) \o <<"/">> \o Field(d, padded)
      [] notation = "DD-MM-YYYY" -> Field(d, padded) \o <<"-">> \o Field(m, padded) \o <<"-">> \o FourDigits(y)
      [] notation = "MM/DD/YYYY" -> Field(m, padded) \o <<"/">> \o Field(d, padded) \o <<"/">> \o FourDigits(y)
      [] notation = "DD-MM-YY" -> Field(d, padded) \o <<"-">> \o Field(m, padded) \o <<"-">> \o TwoDigits(y % 100)
      [] notation = "MM/DD/YY" -> Field(m, padded) \o <<"/">> \o Field(d, padded) \o <<"/">> \o TwoDigits(y % 100)

Notations == {"YYYY-MM-DD", "YYYY/MM/DD", "DD-MM-YYYY", "MM/DD/YYYY", "DD-MM-YY", "MM/DD/YY"}

\* the years, months and days written; months and days past the calendar's
\* range are among them
WrittenYears == {1999, 2023, 2024}
WrittenMonths == {1, 2, 4, 12, 13, 99}
WrittenDays == {1, 15, 29, 30, 31, 99}

\* what stands before and after the date in the text
DateContexts == {
    [before |-> <<>>, after |-> <<>>],
    [before |-> <<"D", "a", "t", "e", ":", " ">>, after |-> <<>>],
    [before |-> <<>>, after |-> <<" ", "S", "t", "o", "r", "e">>] }

\* texts with no date-like substring
UndatedTexts == {<<>>, <<"N", "o", " ", "d", "a", "t", "e", " ", "h", "e", "r", "e">>, <<"T", "e", "l", " ", "0", "2", "-", "1", "2", "3", "4">>}

InitDate ==
    /\ InitCategoryConfig
    /\ InitApp
    /\ result = Null
    /\ raised = FALSE
    /\ op = "input"
    /\ \/ /\ written = Null
          /\ text \in UndatedTexts
       \/ \E y \in WrittenYears, m \in WrittenMonths, d \in WrittenDays,
             notation \in Notations, padded \in BOOLEAN, c \in DateContexts :
             /\ written = Some([year |-> y, month |-> m, day |-> d,
                                notation |-> notation, padded |-> padded])
             /\ text = c.before \o WriteDate(y, m, d, notation, padded) \o c.after

NextDate == ExtractDate

SpecDate == InitDate /\ [][NextDate]_vars

\* the datetime of a calendar date, at 00:00
Midnight(y, m, d) ==
    [year |-> y, month |-> m, day |-> d, hour |-> 0, minute |-> 0, second |-> 0]

\* year, month and day name a day of the calendar
IsCalendarDate(w) ==
    /\ w.month \in 1..12
    /\ w.day >= 1
    /\ w.day <= DaysInMonth(w.year, w.month)

\* the date written is returned when it is a day of the calendar
WrittenDateReturned ==
    op = "date" /\ written.some /\ IsCalendarDate(written.val) =>
        /\ result.some
        /\ result.val = Midnight(written.val.year, written.val.month, written.val.day)

\* a text with no date-like substring yields absent
UndatedTextAbsent == op = "date" /\ ~written.some => ~result.some

\* C5: for a text holding one well-formed calendar date in one of the six
\* notations and no other date-like substring, _extract_date returns that
\* date at 00:00; for a text with no date-like substring, or whose only
\* date-like substring is out of range, it returns absent.
C5_DateRoundTrip ==
    /\ WrittenDateReturned
    /\ UndatedTextAbsent
    /\ op = "date" /\ written.some /\ ~IsCalendarDate(written.val) => ~result.some

-----------------------------------------------------------------------------
(* The category classifier as a state machine: add_custom_category and     *)
(* add_keyword_to_category change the tables, categorize_receipt and       *)
(* get_all_categories read them.                                           *)

\* ReceiptData(merchant=..., raw_text=...)
ReceiptOf(merchant, raw_text) ==
    [NewReceiptData EXCEPT !.merchant = merchant, !.raw_text = raw_text]

r_none == ReceiptOf(Null, Null)
r_blank == ReceiptOf(Some(<<>>), Some(<<>>))
r_unknown == ReceiptOf(Some(<<"U", "n", "k", "n", "o", "w", "n", " ", "B", "u", "s", "i", "n", "e", "s", "s">>),
                       Some(<<"S", "o", "m", "e", " ", "r", "a", "n", "d", "o", "m", " ", "p", "u", "r", "c", "h", "a", "s", "e">>))
r_token == ReceiptOf(Some(<<"C", "o", "r", "n", "e", "r", " ", "P", "l", "a", "c", "e">>),
                     Some(<<"t", "h", "e", " ", "R", "e", "s", "t", "a", "u", "r", "a", "n", "t", " ", "d", "o", "w", "n", "t", "o", "w", "n">>))
r_partial == ReceiptOf(Some(<<"C", "o", "r", "n", "e", "r", " ", "P", "l", "a", "c", "e">>),
                       Some(<<"r", "e", "s", "t", "a", "u", "r", "a", "n", "t", "i", "s", "h", " ", "s", "n", "a", "c", "k", "b", "a", "r">>))
r_petstore == ReceiptOf(Some(<<"P", "e", "t", "S", "t", "o", "r", "e", " ", "I", "n", "c">>),
                        Some(<<"D", "o", "g", " ", "f", "o", "o", "d", " ", "a", "n", "d", " ", "p", "e", "t", " ", "t", "o", "y", "s">>))
r_walmart == ReceiptOf(Some(<<"W", "a", "l", "m", "a", "r", "t">>), Null)
r_bakery == ReceiptOf(Null, Some(<<"f", "r", "e", "s", "h", " ", "b", "a", "k", "e", "r", "y">>))
r_chinese == ReceiptOf(Some(<<"U53F0", "U5317", "U9910", "U5EF3">>),
                       Some(<<"U665A", "U9910", "U6D88", "U8CBB", " ", "U9910", "U5EF3", "U7528", "U9910">>))
r_utilities == ReceiptOf(Some(<<"T", "a", "i", "w", "a", "n", " ", "P", "o", "w", "e", "r", " ", "C", "o", "m", "p", "a", "n", "y">>),
                         Some(<<"M", "o", "n", "t", "h", "l", "y", " ", "e", "l", "e", "c", "t", "r", "i", "c", "i", "t", "y", " ", "b", "i", "l", "l", " ", "p", "a", "y", "m", "e", "n", "t">>))

r_foodcourt == ReceiptOf(Some(<<"W", "a", "l", "m", "a", "r", "t">>),
                         Some(<<"f", "o", "o", "d", " ", "c", "o", "u", "r", "t">>))

Receipts ==
    {r_none, r_blank, r_unknown, r_token, r_partial, r_petstore, r_walmart, r_bakery,
     r_chinese, r_utilities, r_foodcourt}

\* the arguments of add_custom_category
CustomNames == {"Pet Supplies", "Shopping"}

CustomRules == {
    [keywords |-> <<<<"p", "e", "t">>>>, merchants |-> <<<<"P", "e", "t", "S", "t", "o", "r", "e">>>>],
    [keywords |-> <<<<"t", "o", "y", "s">>>>, merchants |-> <<>>] }

\* the arguments of add_keyword_to_category
KeywordTargets == {"Shopping", "Pet Supplies", "Other", "Missing"}

NewKeywords == {<<"b", "a", "k", "e", "r", "y">>}

\* how many calls of add_custom_category and add_keyword_to_category a run makes
MaxMutations == 2

InitCat ==
    /\ text = <<>>
    /\ result = Null
    /\ raised = FALSE
    /\ op = "init"
    /\ written = Null
    /\ InitCategoryConfig
    /\ InitApp

\* config.categorize_receipt(r)
CategorizeReceipt ==
    \E r \in Receipts, t \in {AfterRead(default_categories, custom_categories)} :
        /\ result' = categorize_receipt(default_categories, custom_categories, r)
        /\ default_categories' = t.default
        /\ custom_categories' = t.custom
        /\ receipt' = Some(r)
        /\ raised' = FALSE
        /\ op' = "categorize"
        /\ args' = Some([before |-> [default |-> default_categories,
                                     custom |-> custom_categories]])
        /\ UNCHANGED <<text, written, mutations, app_vars>>

\* config.get_all_categories()
GetAllCategories ==
    /\ result' = get_all_categories(default_categories, custom_categories)
    /\ \E t \in {AfterRead(default_categories, custom_categories)} :
           /\ default_categories' = t.default
           /\ custom_categories' = t.custom
    /\ receipt' = Null
    /\ raised' = FALSE
    /\ op' = "get_all"
    /\ args' = Some([before |-> [default |-> default_categories,
                                 custom |-> custom_categories]])
    /\ UNCHANGED <<text, written, mutations, app_vars>>

\* config.add_custom_category(name, keywords, merchants)
AddCustomCategory ==
    /\ mutations < MaxMutations
    /\ \E name \in CustomNames, rule \in CustomRules :
           /\ custom_categories' =
                  add_custom_category(custom_categories, name, rule.keywords, rule.merchants)
           /\ args' = Some([name |-> name, keywords |-> rule.keywords,
                            merchants |-> rule.merchants,
                            before |-> [default |-> default_categories,
                                        custom |-> custom_categories]])
    /\ mutations' = mutations + 1
    /\ result' = Null
    /\ receipt' = Null
    /\ raised' = FALSE
    /\ op' = "add_custom"
    /\ UNCHANGED <<text, written, default_categories, app_vars>>

\* config.add_keyword_to_category(category, keyword)
AddKeywordToCategory ==
    /\ mutations < MaxMutations
    /\ \E category \in KeywordTargets, keyword \in NewKeywords :
           \E t \in {add_keyword_to_category(default_categories, custom_categories,
                                             category, keyword)} :
               /\ default_categories' = t.default
               /\ custom_categories' = t.custom
               /\ args' = Some([category |-> category, keyword |-> keyword,
                                before |-> [default |-> default_categories,
                                            custom |-> custom_categories]])
    /\ mutations' = mutations + 1
    /\ result' = Null
    /\ receipt' = Null
    /\ raised' = FALSE
    /\ op' = "add_keyword"
    /\ UNCHANGED <<text, written, app_vars>>

NextCat ==
    \/ CategorizeReceipt
    \/ GetAllCategories
    \/ AddCustomCategory
    \/ AddKeywordToCategory

SpecCat == InitCat /\ [][NextCat]_vars

-----------------------------------------------------------------------------
(* What the claims say about classification, stated without the loop       *)

\* the maximal runs of word characters of s
Tokens(s) ==
    {SubSeq(s, i, j) : <<i, j>> \in
        {p \in (1..Len(s)) \X (1..Len(s)) :
            /\ p[1] <= p[2]
            /\ \A k \in p[1]..p[2] : IsWordChar(s[k])
            /\ ~IsWordAt(s, p[1] - 1)
            /\ ~IsWordAt(s, p[2] + 1)}}

\* the receipt's merchant and text, lower-cased, absent as empty
MerchantOf(r) == IF r.merchant.some THEN Lower(r.merchant.val) ELSE <<>>
TextOf(r) == IF r.raw_text.some THEN Lower(r.raw_text.val) ELSE <<>>

\* one of the rule's merchant patterns is a substring of the merchant
MerchantHit(rule, r) ==
    \E m \in 1..Len(rule.merchants) : Contains(MerchantOf(r), Lower(rule.merchants[m]))

\* one of the rule's keywords is a complete token of the text or the merchant
TokenHit(rule, r) ==
    \E k \in 1..Len(rule.keywords) :
        Lower(rule.keywords[k]) \in Tokens(TextOf(r)) \cup Tokens(MerchantOf(r))

RuleHit(rule, r) == MerchantHit(rule, r) \/ TokenHit(rule, r)

\* the name of the first rule of table that hits, "Other" when none does
FirstHit(table, r) ==
    IF \E i \in 1..Len(table) : RuleHit(table[i].value, r)
    THEN table[CHOOSE i \in 1..Len(table) :
                   /\ RuleHit(table[i].value, r)
                   /\ \A j \in 1..(i - 1) : ~RuleHit(table[j].value, r)].key
    ELSE "Other"

\* the table categorize_receipt walks
Walked == AllCategories(default_categories, custom_categories)

\* C7: categorize_receipt returns a category name and does not raise; it
\* returns "Other" when merchant and raw_text are both absent or empty, and
\* when no rule of the combined table has a merchant-substring or keyword
\* match for the receipt.
C7_OtherWhenNothingMatches ==
    op = "categorize" =>
        /\ ~raised
        /\ result \in DictKeys(Walked)
        /\ Falsy(receipt.val.merchant) /\ Falsy(receipt.val.raw_text) => result = "Other"
        /\ (\A i \in 1..Len(Walked) : ~RuleHit(Walked[i].value, receipt.val)) => result = "Other"

C7_Witness ==
    /\ op = "categorize"
    /\ custom_categories # <<>>
    /\ receipt.val = r_unknown
    /\ result = "Other"

C9_CustomBeforeDefault ==
    op = "categorize" =>
        \A i \in 1..Len(custom_categories) :
            /\ MerchantHit(custom_categories[i].value, receipt.val)
            /\ \A j \in 1..(i - 1) : ~RuleHit(custom_categories[j].value, receipt.val)
            => result = custom_categories[i].key

\* the custom rules in their order, then the default rules whose name no
\* custom rule carries
CustomThenDefault ==
    custom_categories \o
        SelectSeq(default_categories, LAMBDA e : e.key \notin DictKeys(custom_categories))

\* C10: when a custom category carries the name of a default category,
\* categorize_receipt evaluates that name with the custom rule, and
\* get_all_categories reports the custom rule under that name.
C10_CustomReplacesDefault ==
    /\ op = "categorize" /\ ~(Falsy(receipt.val.merchant) /\ Falsy(receipt.val.raw_text)) =>
           result = FirstHit(CustomThenDefault, receipt.val)
    /\ op = "get_all" =>
           \A i \in 1..Len(custom_categories) :
               DictGet(result, custom_categories[i].key) = custom_categories[i].value

\* the elements of a list
Elements(list) == {list[i] : i \in 1..Len(list)}

\* the place of the rule called name in the table categorize_receipt walks
WalkedIndex(name) == CHOOSE i \in 1..Len(Walked) : Walked[i].key = name

\* C11: after add_keyword_to_category(c, k) with c the name of an existing
\* category, default or custom, k is among get_all_categories()[c]['keywords']
\* and a receipt whose text has k as a whole token and that no earlier rule
\* matches is classified as c.
C11_KeywordAdded ==
    op = "add_keyword"
    /\ args.val.category \in DictKeys(default_categories) \cup DictKeys(custom_categories)
    =>
    /\ args.val.keyword \in
           Elements(DictGet(get_all_categories(default_categories, custom_categories),
                            args.val.category).keywords)
    /\ \A r \in Receipts :
           /\ Lower(args.val.keyword) \in Tokens(TextOf(r))
           /\ \A j \in 1..(WalkedIndex(args.val.category) - 1) : ~RuleHit(Walked[j].value, r)
           => categorize_receipt(default_categories, custom_categories, r) = args.val.category

\* C12: add_keyword_to_category with a name that neither table carries does
\* not raise and leaves both tables (names, keyword lists, merchant lists)
\* as they were.
C12_UnknownCategoryNoOp ==
    op = "add_keyword"
    /\ args.val.category \notin
           DictKeys(args.val.before.default) \cup DictKeys(args.val.before.custom)
    => /\ default_categories = args.val.before.default
       /\ custom_categories = args.val.before.custom
       /\ ~raised

C12_Witness ==
    /\ op = "add_keyword"
    /\ args.val.category = "Missing"
    /\ custom_categories # <<>>

\* CategoryConfig() with no call made that changes the tables
Fresh ==
    /\ default_categories = DefaultCategories
    /\ custom_categories = <<>>

\* C13: on a fresh CategoryConfig the receipt with merchant U+53F0 U+5317
\* U+9910 U+5EF3 and a text that holds the keyword U+9910 U+5EF3 next to other
\* Chinese characters is classified as "Food & Dining".
C13_ChineseKeyword ==
    op = "categorize" /\ Fresh /\ receipt.val = r_chinese => result = "Food & Dining"

\* C14: on a fresh CategoryConfig the receipt with merchant "Taiwan Power
\* Company" and text "Monthly electricity bill payment" is classified as
\* "Utilities".
C14_ElectricityUtilities ==
    op = "categorize" /\ Fresh /\ receipt.val = r_utilities => result = "Utilities"

-----------------------------------------------------------------------------
(* One OCRService called again and again: _parse_receipt_text and the four  *)
(* extractors, in any order, on any of a few texts.                         *)

RepeatTexts ==
    {<<>>,
     JoinLines(<<line_merchant, line_total>>),
     JoinLines(<<line_bad_date, line_bad_total>>)}

\* how many calls a run makes
MaxCalls == 3

InitRepeat ==
    /\ text = <<>>
    /\ result = Null
    /\ raised = FALSE
    /\ op = "idle"
    /\ written = Null
    /\ InitCategoryConfig
    /\ InitApp

\* service._parse_receipt_text(t), the service having served other calls
CallParseReceiptText ==
    /\ Len(history) < MaxCalls
    /\ \E t \in RepeatTexts :
         \E r \in {_parse_receipt_text(t)} :
           /\ text' = t
           /\ result' = r.data
           /\ raised' = r.raised
           /\ history' = Append(history, [method |-> "parse", text |-> t,
                                          result |-> r.data, raised |-> r.raised])
    /\ op' = "parse"
    /\ UNCHANGED <<written, category_vars, response, calls, message, requests, receipts>>

\* what one extractor returns for t
ExtractorResult(method, t) ==
    CASE method = "date" -> [raised |-> FALSE, value |-> _extract_date(t)]
      [] method = "merchant" -> [raised |-> FALSE, value |-> _extract_merchant(t)]
      [] method = "items" -> [raised |-> FALSE, value |-> _extract_items(t)]
      [] method = "amount" ->
            With(_extract_amount_and_currency(t),
                 LAMBDA d : [raised |-> d.raised,
                             value |-> [amount |-> d.amount, currency |-> d.currency]])

\* one of the four extractors called on its own
CallExtractor ==
    /\ Len(history) < MaxCalls
    /\ \E t \in RepeatTexts, method \in {"date", "merchant", "amount", "items"} :
         \E r \in {ExtractorResult(method, t)} :
           /\ text' = t
           /\ result' = r.value
           /\ raised' = r.raised
           /\ op' = method
           /\ history' = Append(history, [method |-> method, text |-> t,
                                          result |-> r.value, raised |-> r.raised])
    /\ UNCHANGED <<written, category_vars, response, calls, message, requests, receipts>>

NextRepeat ==
    \/ CallParseReceiptText
    \/ CallExtractor

SpecRepeat == InitRepeat /\ [][NextRepeat]_vars

\* the fields of a record that the interpreter fills
Interpreted(record) ==
    [date |-> record.date, merchant |-> record.merchant, amount |-> record.amount,
     currency |-> record.currency, items |-> record.items]

-----------------------------------------------------------------------------
(* OCRService.extract_receipt_data: the provider is asked for the text of   *)
(* the image, and the text is interpreted.  The provider's response carries *)
(* an error message (empty when there is none) and the text annotations,    *)
(* the first of which is the whole text.                                    *)

VisionApiError == <<"V", "i", "s", "i", "o", "n", " ", "A", "P", "I", " ", "e", "r", "r", "o", "r", ":", " ">>

OcrProcessingFailed == <<"O", "C", "R", " ", "p", "r", "o", "c", "e", "s", "s", "i", "n", "g", " ", "f", "a", "i", "l", "e", "d", ":", " ">>

\* the text taken from the annotations, whatever the error message says
ExtractTextIgnoringError(resp) ==
    [raised |-> FALSE, message |-> <<>>,
     value |-> IF resp.texts # <<>> THEN resp.texts[1] ELSE <<>>]

\* _extract_text with the provider's response in hand: the text, or raised
\* with the message of the exception
_extract_text(resp) ==
    IF resp.error # <<>>
    THEN [raised |-> TRUE, message |-> VisionApiError \o resp.error, value |-> <<>>]
    ELSE [raised |-> FALSE, message |-> <<>>,
          value |-> IF resp.texts # <<>> THEN resp.texts[1] ELSE <<>>]

\* str(e) of the exception Decimal raises
InvalidOperationMessage == <<"[", "<", "c", "l", "a", "s", "s", " ", "'", "d", "e", "c", "i", "m", "a", "l", ".", "C", "o", "n", "v", "e", "r", "s", "i", "o", "n", "S", "y", "n", "t", "a", "x", "'", ">", "]">>

\* the record as parsed, raw_text left as the parser left it
ExtractReceiptDataWithoutRawText(resp) ==
    With(_extract_text(resp),
         LAMBDA raw_text :
           IF raw_text.raised
           THEN [raised |-> TRUE, message |-> Some(OcrProcessingFailed \o raw_text.message),
                 data |-> Null, calls |-> <<"_extract_text">>]
           ELSE With(_parse_receipt_text(raw_text.value),
                     LAMBDA parsed_data :
                       IF parsed_data.raised
                       THEN [raised |-> TRUE,
                             message |-> Some(OcrProcessingFailed \o InvalidOperationMessage),
                             data |-> Null,
                             calls |-> <<"_extract_text", "_parse_receipt_text">>]
                       ELSE [raised |-> FALSE, message |-> Null,
                             data |-> Some(parsed_data.data),
                             calls |-> <<"_extract_text", "_parse_receipt_text">>]))

\* extract_receipt_data: the record returned, or raised with the message of
\* the exception; calls lists the methods that ran
extract_receipt_data(resp) ==
    With(_extract_text(resp),
         LAMBDA raw_text :
           IF raw_text.raised
           THEN [raised |-> TRUE, message |-> Some(OcrProcessingFailed \o raw_text.message),
                 data |-> Null, calls |-> <<"_extract_text">>]
           ELSE With(_parse_receipt_text(raw_text.value),
                     LAMBDA parsed_data :
                       IF parsed_data.raised
                       THEN [raised |-> TRUE,
                             message |-> Some(OcrProcessingFailed \o InvalidOperationMessage),
                             data |-> Null,
                             calls |-> <<"_extract_text", "_parse_receipt_text">>]
                       ELSE [raised |-> FALSE, message |-> Null,
                             data |-> Some([parsed_data.data EXCEPT
                                              !.raw_text = Some(raw_text.value)]),
                             calls |-> <<"_extract_text", "_parse_receipt_text">>]))

\* how many lines the text the provider detects has
MaxOcrLines == 2

ProviderTexts == TextsOf(Vocabulary, MaxOcrLines)

ProviderErrors == {<<>>, <<"Q", "u", "o", "t", "a", " ", "e", "x", "c", "e", "e", "d", "e", "d">>}

\* a second annotation: one word of the text
word_annotation == <<"S", "T", "A", "R", "B", "U", "C", "K", "S">>

ProviderResponses ==
    {[error |-> e, texts |-> ts] :
        e \in ProviderErrors,
        ts \in {<<>>} \cup {<<t>> : t \in ProviderTexts}
                      \cup {<<t, word_annotation>> : t \in ProviderTexts}}

InitOcr ==
    /\ text = <<>>
    /\ result = Null
    /\ raised = FALSE
    /\ op = "image"
    /\ written = Null
    /\ InitCategoryConfig
    /\ history = <<>>
    /\ response \in ProviderResponses
    /\ calls = <<>>
    /\ message = Null
    /\ receipts = <<>>
    /\ requests = <<>>

\* await service.extract_receipt_data(image_content)
ExtractReceiptData ==
    /\ op = "image"
    /\ \E r \in {extract_receipt_data(response)} :
           /\ result' = r.data
           /\ raised' = r.raised
           /\ message' = r.message
           /\ calls' = r.calls
    /\ op' = "extract"
    /\ UNCHANGED <<text, written, category_vars, history, response, requests, receipts>>

NextOcr == ExtractReceiptData

SpecOcr == InitOcr /\ [][NextOcr]_vars

\* the text the provider detected: the first annotation, or nothing
DetectedText == IF response.texts # <<>> THEN response.texts[1] ELSE <<>>

\* C16: when the provider reports no error, the record returned has raw_text
\* equal to the provider's text; when the provider detects no text, raw_text
\* is the empty string, not absent, date, merchant, amount and currency are
\* absent and items is empty.
C16_RawTextVerbatim ==
    op = "extract" /\ response.error = <<>> =>
        /\ ~raised
        /\ result.some
        /\ result.val.raw_text = Some(DetectedText)
        /\ response.texts = <<>> =>
              /\ result.val.raw_text = Some(<<>>)
              /\ ~result.val.date.some
              /\ ~result.val.merchant.some
              /\ ~result.val.amount.some
              /\ ~result.val.currency.some
              /\ result.val.items = <<>>

\* a receipt text detected and kept with its line break, and merchant found
C16_Witness ==
    /\ op = "extract"
    /\ response.error = <<>>
    /\ response.texts = <<JoinLines(<<line_merchant, line_total>>), word_annotation>>
    /\ result.val.raw_text = Some(JoinLines(<<line_merchant, line_total>>))
    /\ result.val.merchant.some

\* C17: when the provider's response carries an error message m,
\* extract_receipt_data raises an error whose message contains
\* "Vision API error: m", returns no record, and does not parse any text.
C17_ProviderErrorRaised ==
    op = "extract" /\ response.error # <<>> =>
        /\ raised
        /\ message.some
        /\ Contains(message.val, VisionApiError \o response.error)
        /\ ~result.some
        /\ \A i \in 1..Len(calls) : calls[i] # "_parse_receipt_text"

\* an error reported along with text annotations
C17_Witness ==
    /\ op = "extract"
    /\ response.error # <<>>
    /\ response.texts # <<>>
    /\ raised
    /\ calls = <<"_extract_text">>

-----------------------------------------------------------------------------
(* FileHandler.is_valid_image *)

SUPPORTED_EXTENSIONS ==
    <<<<".", "j", "p", "g">>, <<".", "j", "p", "e", "g">>, <<".", "p", "n", "g">>,
      <<".", "w", "e", "b", "p">>, <<".", "h", "e", "i", "c">>, <<".", "h", "e", "i", "f">>>>

\* the last place of character c in s, 0 when there is none
LastIndexOf(s, c) ==
    IF \E k \in 1..Len(s) : s[k] = c
    THEN CHOOSE k \in 1..Len(s) : s[k] = c /\ \A j \in (k + 1)..Len(s) : s[j] # c
    ELSE 0

\* os.path.splitext(p)[1]: from the last dot of the last path component on,
\* the dots that lead the component not counted
SplitExt(p) ==
    IF /\ LastIndexOf(p, ".") > LastIndexOf(p, "/")
       /\ \E k \in (LastIndexOf(p, "/") + 1)..(LastIndexOf(p, ".") - 1) : p[k] # "."
    THEN SubSeq(p, LastIndexOf(p, "."), Len(p))
    ELSE <<>>

\* a handler that takes every file name for an image
AcceptsEveryName(filename) == TRUE

is_valid_image(filename) ==
    IF filename = <<>> THEN FALSE
    ELSE \E k \in 1..Len(SUPPORTED_EXTENSIONS) :
             SplitExt(Lower(filename)) = SUPPORTED_EXTENSIONS[k]

-----------------------------------------------------------------------------
(* main.upload_receipts.  A request is a coroutine: it runs until it awaits *)
(* file.read() or ocr_service.extract_receipt_data(), and goes on when the  *)
(* awaited call is over; other requests run in between.  An uploaded file   *)
(* is its name, what reading it does, and what the OCR provider answers for *)
(* its content.                                                             *)

InvalidFileType == <<"I", "n", "v", "a", "l", "i", "d", " ", "f", "i", "l", "e", " ", "t", "y", "p", "e", ":", " ">>

\* str(e) of HTTPException(status_code=400, detail=detail)
HTTPExceptionStr(detail) == <<"4", "0", "0", ":", " ">> \o detail

\* ProcessingResult(filename=..., status="success", data=...)
SuccessResult(filename, data) ==
    [filename |-> filename, status |-> "success", data |-> Some(data), error |-> Null]

\* ProcessingResult(filename=..., status="error", error=str(e))
ErrorResult(filename, error) ==
    [filename |-> filename, status |-> "error", data |-> Null, error |-> Some(error)]

\* the handler when upload_receipts(files) is entered
NewRequest(files) ==
    [files |-> files, i |-> 1, pc |-> "loop", results |-> <<>>, log |-> <<>>]

\* a results list that every request in flight appends to
AppendResultShared(reqs, r, entry) ==
    [q \in 1..Len(reqs) |-> [reqs[q] EXCEPT !.results = Append(@, entry)]]

\* results.append(entry) in request r
AppendResult(reqs, r, entry) ==
    [reqs EXCEPT ![r].results = Append(@, entry)]

\* request r calls method for the file it is at
Logged(reqs, r, method) ==
    [reqs EXCEPT ![r].log = Append(@, [file |-> reqs[r].i, method |-> method])]

\* a handler that gives up on the files left after a failure
OnExceptionStop(reqs, r, error) ==
    [AppendResult(reqs, r, ErrorResult(reqs[r].files[reqs[r].i].filename, error))
        EXCEPT ![r].i = Len(reqs[r].files) + 1, ![r].pc = "loop"]

\* except Exception as e: the error result appended, on to the next file
OnException(reqs, r, error) ==
    [AppendResult(reqs, r, ErrorResult(reqs[r].files[reqs[r].i].filename, error))
        EXCEPT ![r].i = @ + 1, ![r].pc = "loop"]

\* the file request r is at
FileAt(r) == requests[r].files[requests[r].i]

\* from the top of the loop to the first await: the name is checked, and the
\* read is started or the rejection recorded
BeginFile(r) ==
    /\ requests[r].pc = "loop"
    /\ requests[r].i <= Len(requests[r].files)
    /\ requests' =
         IF is_valid_image(FileAt(r).filename)
         THEN [Logged(Logged(requests, r, "is_valid_image"), r, "read")
                 EXCEPT ![r].pc = "read"]
         ELSE OnException(Logged(requests, r, "is_valid_image"), r,
                          HTTPExceptionStr(InvalidFileType \o FileAt(r).filename))
    /\ UNCHANGED <<text, result, raised, op, written, category_vars,
                   history, response, calls, message, receipts>>

\* file.read() is over: the OCR call is started, or the failure recorded
FileRead(r) ==
    /\ requests[r].pc = "read"
    /\ requests' =
         IF FileAt(r).read_error = <<>>
         THEN [Logged(requests, r, "extract_receipt_data") EXCEPT ![r].pc = "ocr"]
         ELSE OnException(requests, r, FileAt(r).read_error)
    /\ UNCHANGED <<text, result, raised, op, written, category_vars,
                   history, response, calls, message, receipts>>

\* extract_receipt_data is over: the record is classified and the success
\* appended, or the failure recorded
OcrDone(r) ==
    /\ requests[r].pc = "ocr"
    /\ \E extracted \in {extract_receipt_data(FileAt(r).response)} :
         requests' =
           IF extracted.raised
           THEN OnException(requests, r, extracted.message.val)
           ELSE [AppendResult(Logged(requests, r, "categorize_receipt"), r,
                     SuccessResult(FileAt(r).filename,
                         [extracted.data.val EXCEPT
                            !.category = Some(categorize_receipt(default_categories,
                                                  custom_categories, extracted.data.val))]))
                   EXCEPT ![r].i = @ + 1, ![r].pc = "loop"]
    /\ UNCHANGED <<text, result, raised, op, written, category_vars,
                   history, response, calls, message, receipts>>

\* return results
Return(r) ==
    /\ requests[r].pc = "loop"
    /\ requests[r].i > Len(requests[r].files)
    /\ requests' = [requests EXCEPT ![r].pc = "done"]
    /\ UNCHANGED <<text, result, raised, op, written, category_vars,
                   history, response, calls, message, receipts>>

NextUpload ==
    \/ \E r \in 1..Len(requests) : BeginFile(r)
    \/ \E r \in 1..Len(requests) : FileRead(r)
    \/ \E r \in 1..Len(requests) : OcrDone(r)
    \/ \E r \in 1..Len(requests) : Return(r)

\* the result upload_receipts appends for file f when nothing else runs
ProcessAlone(f) ==
    IF ~is_valid_image(f.filename)
    THEN ErrorResult(f.filename, HTTPExceptionStr(InvalidFileType \o f.filename))
    ELSE IF f.read_error # <<>>
    THEN ErrorResult(f.filename, f.read_error)
    ELSE With(extract_receipt_data(f.response),
              LAMBDA extracted :
                IF extracted.raised
                THEN ErrorResult(f.filename, extracted.message.val)
                ELSE SuccessResult(f.filename,
                        [extracted.data.val EXCEPT
                           !.category = Some(categorize_receipt(DefaultCategories, <<>>,
                                                                extracted.data.val))]))

\* what upload_receipts(files) returns when it is the only request
SoloResults(files) == [i \in 1..Len(files) |-> ProcessAlone(files[i])]

\* the files of the requests
UploadedFile(filename, read_error, error, texts) ==
    [filename |-> filename, read_error |-> read_error,
     response |-> [error |-> error, texts |-> texts]]

f_good == UploadedFile(<<"g", "o", "o", "d", ".", "j", "p", "g">>, <<>>, <<>>,
                       <<JoinLines(<<line_merchant, line_total>>)>>)
f_blank == UploadedFile(<<"R", "2", ".", "P", "N", "G">>, <<>>, <<>>, <<>>)
f_pdf == UploadedFile(<<"d", "o", "c", "u", "m", "e", "n", "t", ".", "p", "d", "f">>,
                      <<>>, <<>>, <<JoinLines(<<line_merchant, line_total>>)>>)
f_dotfile == UploadedFile(<<".", "p", "n", "g">>, <<>>, <<>>, <<>>)
f_unnamed == UploadedFile(<<>>, <<>>, <<>>, <<>>)
f_apierr == UploadedFile(<<"b", "a", "d", ".", "j", "p", "g">>, <<>>, <<"Q", "u", "o", "t", "a", " ", "e", "x", "c", "e", "e", "d", "e", "d">>, <<>>)
f_unreadable == UploadedFile(<<"t", "o", "r", "n", ".", "j", "p", "e", "g">>,
                             <<"r", "e", "a", "d", " ", "f", "a", "i", "l", "e", "d">>, <<>>, <<>>)

UploadFiles == {f_good, f_blank, f_pdf, f_dotfile, f_unnamed, f_apierr, f_unreadable}

\* how many files one request uploads
MaxFiles == 2

\* every list of 0..n files drawn from the set files
FileLists(files, n) == UNION {[1..k -> files] : k \in 0..n}

\* one request on its own
InitUpload ==
    /\ text = <<>>
    /\ result = Null
    /\ raised = FALSE
    /\ op = "upload"
    /\ written = Null
    /\ InitCategoryConfig
    /\ history = <<>>
    /\ response = Null
    /\ calls = <<>>
    /\ message = Null
    /\ receipts = <<>>
    /\ \E files \in FileLists(UploadFiles, MaxFiles) : requests = <<NewRequest(files)>>

SpecUpload == InitUpload /\ [][NextUpload]_vars

ConcurrentFiles == {f_good, f_pdf, f_apierr}

\* how many files each of two requests in flight uploads
MaxConcurrentFiles == 2

\* two requests in flight
InitConcurrent ==
    /\ text = <<>>
    /\ result = Null
    /\ raised = FALSE
    /\ op = "upload"
    /\ written = Null
    /\ InitCategoryConfig
    /\ history = <<>>
    /\ response = Null
    /\ calls = <<>>
    /\ message = Null
    /\ receipts = <<>>
    /\ \E a, b \in FileLists(ConcurrentFiles, MaxConcurrentFiles) :
           requests = <<NewRequest(a), NewRequest(b)>>

SpecConcurrent == InitConcurrent /\ [][NextUpload]_vars

\* validation, the read and the OCR call do not raise for file f
Accepted(f) ==
    /\ is_valid_image(f.filename)
    /\ f.read_error = <<>>
    /\ f.response.error = <<>>

\* the result of file f is a success with the classified record, or an error
\* with a message and no record
ResultFits(res, f) ==
    /\ res.filename = f.filename
    /\ IF Accepted(f)
       THEN /\ res.status = "success"
            /\ res.data.some
            /\ ~res.error.some
            /\ res.data.val.category =
                   Some(categorize_receipt(default_categories, custom_categories,
                                           res.data.val))
            /\ f.response.texts = <<>> =>
                   /\ ~res.data.val.date.some
                   /\ ~res.data.val.merchant.some
                   /\ ~res.data.val.amount.some
                   /\ res.data.val.items = <<>>
       ELSE /\ res.status = "error"
            /\ res.error.some
            /\ res.error.val # <<>>
            /\ ~res.data.some

\* C18: upload_receipts returns one result per uploaded file, in upload
\* order and with the file's name: a success with the classified record and
\* no error when validation and OCR did not raise, an error with a message
\* and no record otherwise.  A failure on one file neither stops nor alters
\* the processing of the later files, and OCR text with no recognizable
\* field is a success with absent fields.
C18_OneResultPerFile ==
    \A r \in 1..Len(requests) :
        /\ Len(requests[r].results) = requests[r].i - 1
        /\ requests[r].pc = "done" => Len(requests[r].results) = Len(requests[r].files)
        /\ \A i \in 1..Len(requests[r].results) :
               ResultFits(requests[r].results[i], requests[r].files[i])

\* a provider error on the first file, then a file with no text: an error
\* followed by a success with absent fields
C18_Witness ==
    /\ requests[1].pc = "done"
    /\ requests[1].files = <<f_apierr, f_blank>>
    /\ requests[1].results[1].status = "error"
    /\ requests[1].results[2].status = "success"
    /\ requests[1].results[2].data.val.category = Some("Other")
    /\ ~requests[1].results[2].data.val.merchant.some

\* name ends with suffix
EndsWith(name, suffix) ==
    /\ Len(name) >= Len(suffix)
    /\ SubSeq(name, Len(name) - Len(suffix) + 1, Len(name)) = suffix

\* the name does not end with a supported image extension, in any casing
NoSupportedExtension(name) ==
    \A k \in 1..Len(SUPPORTED_EXTENSIONS) : ~EndsWith(Lower(name), SUPPORTED_EXTENSIONS[k])

\* C19: for a file whose name has no supported image extension the handler
\* records an error result whose message contains "Invalid file type", does
\* not read the file nor call the OCR service or the classifier for it, and
\* goes on to return a result for every file.
C19_InvalidFileRejected ==
    \A r \in 1..Len(requests) :
        /\ requests[r].pc = "done" => Len(requests[r].results) = Len(requests[r].files)
        /\ \A i \in 1..Len(requests[r].results) :
               NoSupportedExtension(requests[r].files[i].filename) =>
                   /\ requests[r].results[i].status = "error"
                   /\ Contains(requests[r].results[i].error.val, <<"I", "n", "v", "a", "l", "i", "d", " ", "f", "i", "l", "e", " ", "t", "y", "p", "e">>)
                   /\ \A k \in 1..Len(requests[r].log) :
                          requests[r].log[k].file = i =>
                              requests[r].log[k].method = "is_valid_image"

\* a PDF rejected, and the image after it processed
C19_Witness ==
    /\ requests[1].pc = "done"
    /\ requests[1].files = <<f_pdf, f_good>>
    /\ requests[1].results[1].status = "error"
    /\ requests[1].results[2].status = "success"

\* C20: two upload requests whose handlers interleave at their suspension
\* points each return the results they would return if run alone, and the
\* rule tables are only read.
C20_RequestsIsolated ==
    /\ Fresh
    /\ \A r \in 1..Len(requests) :
           requests[r].pc = "done" =>
               requests[r].results = SoloResults(requests[r].files)

\* the first request has returned while the second, which has a result
\* already, is suspended in its OCR call
C20_Witness ==
    /\ requests[1].pc = "done"
    /\ Len(requests[1].results) = 2
    /\ requests[2].pc = "ocr"
    /\ Len(requests[2].results) = 1

-----------------------------------------------------------------------------
(* float: an IEEE 754 binary64 number that is finite and not negative.  A   *)
(* number other than 0.0 is its significand m, mant_dig binary digits of    *)
(* which the first is 1, and the exponent e of that first digit: its value  *)
(* is m[1] * 2^e + m[2] * 2^(e - 1) + ...  Results are rounded to nearest,  *)
(* ties to even.                                                            *)

\* sys.float_info.mant_dig
mant_dig == 53

\* 0.0
FloatZero == [e |-> 0, m |-> <<>>]

RECURSIVE PowerOfTwo(_)
PowerOfTwo(k) == IF k = 0 THEN 1 ELSE 2 * PowerOfTwo(k - 1)

\* n written with width binary digits
BitsOf(n, width) == [j \in 1..width |-> (n \div PowerOfTwo(width - j)) % 2]

\* the binary digits of n < 2^30, the first of them 1 (none for 0)
IntBits(n) == BitsOf(n, CHOOSE w \in 0..30 : n < PowerOfTwo(w) /\ (w = 0 \/ n >= PowerOfTwo(w - 1)))

\* how many binary digits of a quotient are worked out at a time: the
\* arithmetic stays below 2^31 for a divisor d < 2^15
ChunkBits == 16

\* at least count binary digits of the fraction r/d, 0 <= r < d, worked out
\* ChunkBits at a time, and the remainder left
RECURSIVE FracBits(_, _, _, _)
FracBits(r, d, count, acc) ==
    IF Len(acc) >= count THEN [bits |-> acc, rem |-> r]
    ELSE With([rem |-> (r * PowerOfTwo(ChunkBits)) % d,
               bits |-> acc \o BitsOf((r * PowerOfTwo(ChunkBits)) \div d, ChunkBits)],
              LAMBDA next : FracBits(next.rem, d, count, next.bits))

\* the exponent of the first binary digit 1 of the fraction r/d, 0 < r < d,
\* and the remainder left after it
LeadingBit(r, d, e) ==
    With(CHOOSE k \in 1..ChunkBits :
             r * PowerOfTwo(k) >= d /\ r * PowerOfTwo(k - 1) < d,
         LAMBDA k : [e |-> e - k, rem |-> r * PowerOfTwo(k) - d])

\* the significand one unit in the last place up
RoundUp(m, e) ==
    LET zeros == {i \in 1..Len(m) : m[i] = 0}
    IN  IF zeros = {}
        THEN [e |-> e + 1, m |-> [i \in 1..Len(m) |-> IF i = 1 THEN 1 ELSE 0]]
        ELSE LET k == CHOOSE i \in zeros : \A j \in zeros : j <= i
             IN  [e |-> e,
                  m |-> [i \in 1..Len(m) |-> IF i < k THEN m[i]
                                             ELSE IF i = k THEN 1 ELSE 0]]

\* the float nearest to the number whose binary digits are bits (the first
\* of them 1, of exponent e), followed by digits not all 0 when inexact
RoundToNearestEven(bits, inexact, e) ==
    LET guard == Len(bits) > mant_dig /\ bits[mant_dig + 1] = 1
        sticky == inexact \/ \E i \in (mant_dig + 2)..Len(bits) : bits[i] = 1
    IN  With([i \in 1..mant_dig |-> IF i <= Len(bits) THEN bits[i] ELSE 0],
             LAMBDA m : IF guard /\ (sticky \/ m[mant_dig] = 1) THEN RoundUp(m, e)
                        ELSE [e |-> e, m |-> m])

\* the carry into place i of x + y: some place after i gives a carry and
\* every place in between passes it on
CarryInto(x, y, i) ==
    \E j \in (i + 1)..Len(x) :
        /\ x[j] = 1 /\ y[j] = 1
        /\ \A k \in (i + 1)..(j - 1) : x[k] # y[k]

\* x + y of two digit strings of one length, the carry out in front
AddBits(x, y) ==
    [i \in 1..(Len(x) + 1) |->
        IF i = 1 THEN (IF CarryInto(x, y, 0) THEN 1 ELSE 0)
        ELSE (x[i - 1] + y[i - 1] + (IF CarryInto(x, y, i - 1) THEN 1 ELSE 0)) % 2]

\* float.__add__
FloatAdd(a, b) ==
    IF a = FloatZero THEN b
    ELSE IF b = FloatZero THEN a
    ELSE LET hi == IF a.e >= b.e THEN a ELSE b
             lo == IF a.e >= b.e THEN b ELSE a
             shift == hi.e - lo.e
             pad == [i \in 1..shift |-> 0]
         IN  With([x |-> hi.m \o pad, y |-> pad \o lo.m, e |-> hi.e],
                  LAMBDA aligned :
                    With(AddBits(aligned.x, aligned.y),
                         LAMBDA sum : IF sum[1] = 1
                                      THEN RoundToNearestEven(sum, FALSE, aligned.e + 1)
                                      ELSE RoundToNearestEven(Tail(sum), FALSE, aligned.e)))

\* the float nearest to n/d
FloatOfRatio(n, d) ==
    IF n = 0 THEN FloatZero
    ELSE IF n >= d
    THEN With(IntBits(n \div d),
              LAMBDA whole :
                With(FracBits(n % d, d, mant_dig + 1 - Len(whole), <<>>),
                     LAMBDA frac : RoundToNearestEven(whole \o frac.bits,
                                                      frac.rem # 0, Len(whole) - 1)))
    ELSE With(LeadingBit(n, d, 0),
              LAMBDA lead :
                With(FracBits(lead.rem, d, mant_dig, <<>>),
                     LAMBDA frac : RoundToNearestEven(<<1>> \o frac.bits,
                                                      frac.rem # 0, lead.e)))

RECURSIVE PowerOfTen(_)
PowerOfTen(k) == IF k = 0 THEN 1 ELSE 10 * PowerOfTen(k - 1)

\* Decimal.__float__, for a Decimal whose exponent is not positive
FloatOfDecimal(x) == FloatOfRatio(DigitsValue(x.digits), PowerOfTen(0 - x.exp))

\* Decimal.__bool__
DecimalTruthy(x) == DigitsValue(x.digits) # 0

\* str(n) for an int n >= 0
RECURSIVE IntDigits(_)
IntDigits(n) ==
    IF n < 10 THEN <<DigitChar(n)>> ELSE Append(IntDigits(n \div 10), DigitChar(n % 10))

\* Decimal.__add__ where nothing is rounded: the smaller exponent is kept
DecimalAdd(x, y) ==
    LET exp == IF x.exp <= y.exp THEN x.exp ELSE y.exp
    IN  [digits |-> IntDigits(DigitsValue(x.digits) * PowerOfTen(x.exp - exp)
                              + DigitsValue(y.digits) * PowerOfTen(y.exp - exp)),
         exp |-> exp]

-----------------------------------------------------------------------------
(* ExportService.get_summary_stats *)

\* not s, for a field that holds a name
FalsyName(s) == ~s.some \/ s.val = ""

\* not r.amount
FalsyAmount(r) == ~r.amount.some \/ ~DecimalTruthy(r.amount.val)

\* sum(r.amount for r in receipts if r.amount): the int 0, written as the
\* Decimal of the same value, with the amounts added from the left
RECURSIVE SumAmounts(_, _, _)
SumAmounts(rs, i, acc) ==
    IF i > Len(rs) THEN acc
    ELSE With(IF FalsyAmount(rs[i]) THEN acc ELSE DecimalAdd(acc, rs[i].amount.val),
              LAMBDA sum : SumAmounts(rs, i + 1, sum))

\* d.get(k, 0)
DictGetOr(d, k, default) == IF k \in DictKeys(d) THEN DictGet(d, k) ELSE default

\* the loop over the receipts
RECURSIVE CountReceipts(_, _, _, _)
CountReceipts(rs, i, categories, currencies) ==
    IF i > Len(rs) THEN [categories |-> categories, currencies |-> currencies]
    ELSE With([categories |->
                 IF FalsyName(rs[i].category) THEN categories
                 ELSE DictSet(categories, rs[i].category.val,
                              DictGetOr(categories, rs[i].category.val, 0) + 1),
               currencies |->
                 IF FalsyName(rs[i].currency) \/ FalsyAmount(rs[i]) THEN currencies
                 ELSE DictSet(currencies, rs[i].currency.val,
                              FloatAdd(DictGetOr(currencies, rs[i].currency.val, FloatZero),
                                       FloatOfDecimal(rs[i].amount.val)))],
              LAMBDA next : CountReceipts(rs, i + 1, next.categories, next.currencies))

get_summary_stats(rs) ==
    IF rs = <<>> THEN <<>>
    ELSE With(CountReceipts(rs, 1, <<>>, <<>>),
              LAMBDA counted :
                <<[key |-> "total_receipts", value |-> Len(rs)],
                  [key |-> "total_amount",
                   value |-> FloatOfDecimal(SumAmounts(rs, 1, [digits |-> <<"0">>, exp |-> 0]))],
                  [key |-> "categories", value |-> counted.categories],
                  [key |-> "currencies", value |-> counted.currencies]>>)

-----------------------------------------------------------------------------
(* POST /summary: get_summary_stats on a list of receipts.                  *)

\* ReceiptData(category=..., amount=..., currency=...)
StatsReceipt(category, amount, currency) ==
    [NewReceiptData EXCEPT !.category = category, !.amount = amount,
                           !.currency = currency]

\* Decimal(s) of a valid literal
Amount(s) == Some(Decimal(s).val)

s_dime == StatsReceipt(Some("Shopping"), Amount(<<"0", ".", "1", "0">>), Some("USD"))
s_fifth == StatsReceipt(Some("Food & Dining"), Amount(<<"0", ".", "2", "0">>), Some("USD"))
s_lunch == StatsReceipt(Some("Food & Dining"), Amount(<<"1", "0", "0", ".", "0", "0">>), Some("NTD"))
s_shop == StatsReceipt(Some("Shopping"), Amount(<<"2", "5", ".", "5", "0">>), Some("USD"))
s_no_amount == StatsReceipt(Some("Shopping"), Null, Some("USD"))
s_free == StatsReceipt(Some("Other"), Amount(<<"0", ".", "0", "0">>), Some("HKD"))
s_no_currency == StatsReceipt(Null, Amount(<<"1", "5">>), Null)
s_unnamed == StatsReceipt(Some(""), Amount(<<"7", ".", "3">>), Some(""))

StatsReceipts == {s_dime, s_fifth, s_lunch, s_shop, s_no_amount, s_free,
                  s_no_currency, s_unnamed}

\* how many receipts a request lists at most
MaxReceipts == 3

RECURSIVE ReceiptLists(_)
ReceiptLists(n) ==
    IF n = 0 THEN {<<>>}
    ELSE ReceiptLists(n - 1)
         \cup {Append(l, r) : l \in {k \in ReceiptLists(n - 1) : Len(k) = n - 1},
                              r \in StatsReceipts}

InitStats ==
    /\ text = <<>>
    /\ result = Null
    /\ raised = FALSE
    /\ op = "receipts"
    /\ written = Null
    /\ InitCategoryConfig
    /\ history = <<>>
    /\ response = Null
    /\ calls = <<>>
    /\ message = Null
    /\ requests = <<>>
    /\ receipts \in ReceiptLists(MaxReceipts)

\* export_service.get_summary_stats(receipts)
GetSummaryStats ==
    /\ op = "receipts"
    /\ result' = get_summary_stats(receipts)
    /\ op' = "get_summary_stats"
    /\ UNCHANGED <<text, raised, written, category_vars, history, response,
                   calls, message, requests, receipts>>

NextStats == GetSummaryStats

SpecStats == InitStats /\ [][NextStats]_vars

-----------------------------------------------------------------------------
(* Properties of get_summary_stats, under SpecStats *)

\* the receipts of the list that have an amount, a category, a currency
Priced == {i \in 1..Len(receipts) : ~FalsyAmount(receipts[i])}
Categorized == {i \in 1..Len(receipts) : ~FalsyName(receipts[i].category)}
Denominated == {i \in Priced : ~FalsyName(receipts[i].currency)}

\* the most decimal places any amount of the list is written with
Places ==
    CHOOSE k \in 0..9 :
        /\ \A i \in Priced : 0 - receipts[i].amount.val.exp <= k
        /\ k = 0 \/ \E i \in Priced : 0 - receipts[i].amount.val.exp = k

\* the amounts of the receipts S added up, in units of 10^-Places
RECURSIVE Units(_)
Units(S) ==
    IF S = {} THEN 0
    ELSE LET i == CHOOSE j \in S : TRUE
         IN  DigitsValue(receipts[i].amount.val.digits)
               * PowerOfTen(Places + receipts[i].amount.val.exp)
             + Units(S \ {i})

\* the float nearest to the amounts of the receipts S added up
Total(S) == FloatOfRatio(Units(S), PowerOfTen(Places))

\* sum(d.values())
RECURSIVE FloatSum(_, _, _)
FloatSum(d, i, acc) ==
    IF i > Len(d) THEN acc
    ELSE With(FloatAdd(acc, d[i].value), LAMBDA sum : FloatSum(d, i + 1, sum))

C21_Empty == op = "get_summary_stats" /\ receipts = <<>> => result = <<>>

C21_Counts ==
    op = "get_summary_stats" /\ receipts # <<>> =>
        /\ DictGet(result, "total_receipts") = Len(receipts)
        /\ DictKeys(DictGet(result, "categories"))
             = {receipts[i].category.val : i \in Categorized}
        /\ \A c \in DictKeys(DictGet(result, "categories")) :
             DictGet(DictGet(result, "categories"), c)
               = Cardinality({i \in Categorized : receipts[i].category.val = c})

C21_TotalAmount ==
    op = "get_summary_stats" /\ receipts # <<>> =>
        DictGet(result, "total_amount") = Total(Priced)

C21_CurrencyKeys ==
    op = "get_summary_stats" /\ receipts # <<>> =>
        DictKeys(DictGet(result, "currencies"))
          = {receipts[i].currency.val : i \in Denominated}

C21_CurrencyTotals ==
    op = "get_summary_stats" /\ receipts # <<>> =>
        \A c \in DictKeys(DictGet(result, "currencies")) :
            DictGet(DictGet(result, "currencies"), c)
              = Total({i \in Denominated : receipts[i].currency.val = c})

C21_AddUp ==
    op = "get_summary_stats" /\ receipts # <<>> /\ Priced = Denominated =>
        FloatSum(DictGet(result, "currencies"), 1, FloatZero)
          = DictGet(result, "total_amount")

\* C21: get_summary_stats of a list that is not empty returns the length of
\* the list as total_receipts, for each category that is not empty the number
\* of receipts that have it, for each currency the total of the receipts that
\* have that currency and an amount, and as total_amount the total of all the
\* amounts; the totals of the currencies add up to total_amount when every
\* receipt with an amount has a currency; of the empty list it returns {}
C21_SummaryStats ==
    /\ C21_Empty
    /\ C21_Counts
    /\ C21_TotalAmount
    /\ C21_CurrencyKeys
    /\ C21_CurrencyTotals
    /\ C21_AddUp

-----------------------------------------------------------------------------
(* Further properties of _extract_date, under SpecDate *)

\* the date patterns that match somewhere in the text
MatchingPatterns ==
    {k \in 1..Len(date_patterns) : ReSearch(date_patterns[k], text, FALSE).ok}

\* the first of them in the order of the list
FirstMatchingPattern == CHOOSE k \in MatchingPatterns : \A j \in MatchingPatterns : k <= j

\* its match is a date under none of the six formats
FirstMatchFailsAllFormats ==
    /\ MatchingPatterns # {}
    /\ ~TryFormats(Group0(ReSearch(date_patterns[FirstMatchingPattern], text, FALSE),
                          text), 1).some

\* C22: once the first pattern of the list that matches somewhere in the
\* text has its match fail all six formats, _extract_date returns absent
C22_NoLowerPatternTried ==
    op = "date" /\ FirstMatchFailsAllFormats => ~result.some

-----------------------------------------------------------------------------
(* Further properties of _extract_merchant, under SpecMerchant *)

\* the trimmed lines of the text that are not empty
NonEmptyLines(t) == SelectSeq(TrimmedLines(t), LAMBDA l : l # <<>>)

\* the first five of them
FirstNonEmptyLines(t) ==
    SubSeq(NonEmptyLines(t), 1, IF Len(NonEmptyLines(t)) < 5 THEN Len(NonEmptyLines(t)) ELSE 5)

\* C23: _extract_merchant inspects the first 5 trimmed lines that are not
\* empty: it returns the first of them that passes the filter, however many
\* blank lines stand before it, and absent when none of them passes
C23_BlankLinesNotCounted ==
    op = "merchant" =>
        LET lines == FirstNonEmptyLines(text)
            ok == {k \in 1..Len(lines) : ~RejectedAsMerchant(lines[k])}
        IN  /\ ok = {} => ~result.some
            /\ ok # {} =>
                 /\ result.some
                 /\ result.val = lines[CHOOSE k \in ok : \A j \in ok : k <= j]

-----------------------------------------------------------------------------
(* _extract_amount_and_currency on lines that carry several monetary forms, *)
(* currency letters without a '$', and amounts that hold no digit:          *)
(* SpecAmount                                                               *)

\* "Total rent, NT$100"
a_rent == <<"T", "o", "t", "a", "l", " ", "r", "e", "n", "t", ",", " ", "N", "T", "$", "1", "0", "0">>
\* "$5 NT$100"
a_both == <<"$", "5", " ", "N", "T", "$", "1", "0", "0">>
\* "Paid HK$50 not $5"
a_hk == <<"P", "a", "i", "d", " ", "H", "K", "$", "5", "0", " ", "n", "o", "t", " ", "$", "5">>
\* "Amount 5"
a_count == <<"A", "m", "o", "u", "n", "t", " ", "5">>
\* "NT 100"
a_letters == <<"N", "T", " ", "1", "0", "0">>
\* "Parking lot 12"
a_plain == <<"P", "a", "r", "k", "i", "n", "g", " ", "l", "o", "t", " ", "1", "2">>
\* "Total: $, 300<yuan>"
a_bad_then_yuan == <<"T", "o", "t", "a", "l", ":", " ", "$", ",", " ", "3", "0", "0", "U5143">>
\* "Sum: ,<yuan> US$7"
a_bad_yuan == <<"S", "u", "m", ":", " ", ",", "U5143", " ", "U", "S", "$", "7">>
\* "$, $5"
a_bad_then_bare == <<"$", ",", " ", "$", "5">>

AmountVocabulary == {line_blank, line_total, line_bad_total, line_amount, line_bare,
                     line_heji, a_rent, a_both, a_hk, a_count, a_letters, a_plain,
                     a_bad_then_yuan, a_bad_yuan, a_bad_then_bare}

\* the longest text of SpecAmount, in lines
MaxAmountLines == 2

InitAmount ==
    /\ text \in TextsOf(AmountVocabulary, MaxAmountLines)
    /\ result = Null
    /\ raised = FALSE
    /\ op = "input"
    /\ written = Null
    /\ InitCategoryConfig
    /\ InitApp

NextAmount == ExtractAmountAndCurrency

SpecAmount == InitAmount /\ [][NextAmount]_vars

\* the strings the patterns are applied to, in the order of the three
\* passes: the 'total' lines, the keyword lines, the whole text
Examined(t) ==
    SelectSeq(SplitLines(t), IsTotalLine) \o SelectSeq(SplitLines(t), IsKeywordLine) \o <<t>>

\* pattern k matches in s
Matches(s, k) == ReSearch(currency_patterns[k].re, s, TRUE).ok

\* pattern k matches in s and the number it captures is a decimal
Parses(s, k) ==
    /\ Matches(s, k)
    /\ Decimal(AmountStr(ReSearch(currency_patterns[k].re, s, TRUE), s,
                         currency_patterns[k])).ok

\* the examined strings on which some pattern matches and parses
Deciding(t) == {i \in 1..Len(Examined(t)) : \E k \in 1..Len(currency_patterns) : Parses(Examined(t)[i], k)}

\* the first of them
DecidingString(t) == Examined(t)[CHOOSE i \in Deciding(t) : \A j \in Deciding(t) : i <= j]

\* the first pattern of the list that matches and parses on s
DecidingPattern(s) ==
    CHOOSE k \in 1..Len(currency_patterns) :
        /\ Parses(s, k)
        /\ \A j \in 1..(k - 1) : ~Parses(s, j)

\* the amount pattern k captures in s
Captured(s, k) ==
    Decimal(AmountStr(ReSearch(currency_patterns[k].re, s, TRUE), s, currency_patterns[k])).val

\* the result is what the first pattern that matches and parses gives on
\* the first examined string on which one does
FirstParseDecides ==
    Deciding(text) # {} =>
        /\ result.currency = Some(currency_patterns[DecidingPattern(DecidingString(text))].currency)
        /\ result.amount = Some(Captured(DecidingString(text), DecidingPattern(DecidingString(text))))

\* s holds tag, '$' and a digit in a row
HasTagged(s, tag) ==
    \E i \in 1..(Len(s) - 3) :
        /\ SubSeq(s, i, i + 1) = tag
        /\ s[i + 2] = "$"
        /\ s[i + 3] \in Digit

\* C24: the five patterns are tried in the order NT$, HK$, US$, $, <yuan>
\* on the string examined and the first that matches and parses decides
\* amount and currency; so a string that holds NT$<number> or HK$<number> is
\* never reported as USD
C24_PatternOrder ==
    op = "amount" =>
        /\ FirstParseDecides
        /\ Deciding(text) # {}
           /\ (HasTagged(DecidingString(text), <<"N", "T">>)
               \/ HasTagged(DecidingString(text), <<"H", "K">>))
           => result.currency # Some("USD")

\* C25: for a text that holds neither '$' nor <yuan>, amount and currency
\* are both absent, digits or not
C25_OnlyTaggedForms ==
    op = "amount" /\ (\A i \in 1..Len(text) : text[i] \notin {"$", "U5143"}) =>
        ~result.amount.some /\ ~result.currency.some

\* some pattern matches on an examined string and captures no decimal
MalformedToken(t) ==
    \E i \in 1..Len(Examined(t)), k \in 1..Len(currency_patterns) :
        Matches(Examined(t)[i], k) /\ ~Parses(Examined(t)[i], k)

\* C26: when a pattern matches and the number it captures is not a decimal,
\* nothing is raised and the search goes on with the remaining patterns,
\* lines and passes: the first later match that parses is returned, and
\* absent for both fields when none parses
C26_MalformedTokenSkipped ==
    op = "amount" /\ MalformedToken(text) =>
        /\ ~raised
        /\ FirstParseDecides
        /\ Deciding(text) = {} => ~result.amount.some /\ ~result.currency.some

\* "Total: $," then "Total: $, 300<yuan>": the first line gives nothing, on
\* the second the '$' pattern captures a comma and the <yuan> pattern 300
C26_Witness ==
    /\ op = "amount"
    /\ text = JoinLines(<<line_bad_total, a_bad_then_yuan>>)
    /\ ~raised
    /\ result.amount = Some([digits |-> <<"3", "0", "0">>, exp |-> 0])
    /\ result.currency = Some("NTD")

-----------------------------------------------------------------------------
(* Further properties of the classifier, under SpecCat *)

\* C27: categorize_receipt returns the name of the first rule, in the order
\* of the table it walks, of which a merchant pattern is contained in the
\* merchant or a keyword matches the text or the merchant: an earlier rule's
\* keyword match wins over a later rule's merchant match
C27_FirstRuleWins ==
    op = "categorize" /\ ~(Falsy(receipt.val.merchant) /\ Falsy(receipt.val.raw_text)) =>
        result = FirstHit(Walked, receipt.val)

\* merchant "Walmart", text "food court": the keyword 'food' of the first
\* rule wins over the merchant 'walmart' of the third
C27_Witness ==
    /\ op = "categorize"
    /\ Fresh
    /\ receipt.val = r_foodcourt
    /\ TokenHit(Walked[1].value, r_foodcourt)
    /\ ~MerchantHit(Walked[1].value, r_foodcourt)
    /\ MerchantHit(Walked[3].value, r_foodcourt)
    /\ result = "Food & Dining"

\* the rule a table holds under the name Other has no keyword and no merchant
OtherIsEmpty(table) ==
    "Other" \in DictKeys(table) =>
        /\ DictGet(table, "Other").keywords = <<>>
        /\ DictGet(table, "Other").merchants = <<>>

\* C28: in every state add_custom_category and add_keyword_to_category lead
\* to, the rule Other has no keywords and no merchants, and categorize_receipt
\* returns "Other" only when no rule matches
C28_OtherStaysEmpty ==
    /\ OtherIsEmpty(default_categories)
    /\ OtherIsEmpty(Walked)
    /\ op = "categorize" /\ result = "Other" =>
           \A i \in 1..Len(Walked) : ~RuleHit(Walked[i].value, receipt.val)

\* C29: categorize_receipt and get_all_categories leave both tables as they
\* found them (names, keyword lists, merchant lists, order), so that the
\* receipt just classified is classified the same when classified again
C29_ReadsLeaveTables ==
    op \in {"categorize", "get_all"} =>
        /\ default_categories = args.val.before.default
        /\ custom_categories = args.val.before.custom
        /\ op = "categorize" =>
               categorize_receipt(default_categories, custom_categories, receipt.val) = result

\* a receipt classified by a custom rule, after a custom category and a
\* keyword were added
C29_Witness ==
    /\ op = "categorize"
    /\ mutations = MaxMutations
    /\ custom_categories # <<>>
    /\ default_categories # DefaultCategories
    /\ receipt.val = r_petstore
    /\ result = "Pet Supplies"

\* C30: add_custom_category(name, keywords, merchants) does not change the
\* category of a receipt that matches none of the keywords and none of the
\* merchants given, whatever the name and the tables before the call
C30_CustomCategoryFrame ==
    op = "add_custom" =>
        \A r \in Receipts :
            ~RuleHit([keywords |-> args.val.keywords, merchants |-> args.val.merchants], r)
            => categorize_receipt(default_categories, custom_categories, r)
                 = categorize_receipt(args.val.before.default, args.val.before.custom, r)

====
